---------------------------- MODULE Spec2Model ----------------------------
(***************************************************************************)
(* A model of the session / request layer of the nanowrimo client          *)
(* (src/src/client.rs): the shared token behind a tokio RwLock, the        *)
(* credentials, make_request with its response classification,             *)
(* retry_request with its single re-login, login, logout, is_logged_in     *)
(* and add_project_session, run by several tasks on clones of one client.  *)
(*                                                                         *)
(* A task's steps are cut at the await points of the async functions: the  *)
(* wait for the token lock, the synchronous code run while the guard is    *)
(* held, and the wait for the server's response.                           *)
(***************************************************************************)
EXTENDS Integers, Sequences, FiniteSets

VARIABLES
    creds,      \* NanoClient.creds: "None" or "Some" (never reassigned by the source)
    creds0,     \* the credentials given at construction (history)
    token,      \* NanoClient.token, the value inside the RwLock: NoToken or 1..MaxToken
    rlock,      \* tasks holding a read guard of the token lock
    wlock,      \* tasks holding the write guard of the token lock
    task,       \* per task: position in the running operation and its locals
    input,      \* the specifications of one function: what the function is handed
    output      \* the specifications of one function: what it returned

vars == <<creds, creds0, token, rlock, wlock, task, input, output>>

-----------------------------------------------------------------------------
(* Bounds *)

\* how many distinct tokens the server may issue
MaxToken == 2
\* longest `errors` list the server may send
MaxErrs == 1

-----------------------------------------------------------------------------
(* Program constants *)

\* Option<String>::None inside the RwLock (Default::default())
NoToken == 0
\* reqwest::StatusCode values the source names
UNAUTHORIZED == 401
NOT_FOUND == 404
INTERNAL_SERVER_ERROR == 500

Clients == {"a", "b"}
Tokens == 1..MaxToken
\* statuses the server may answer with: two the source does not single out
\* (200, 422) and the three it names
Statuses == {200, 422, UNAUTHORIZED, NOT_FOUND, INTERNAL_SERVER_ERROR}
Msgs == {"bad thing", "Unauthorized"}

-----------------------------------------------------------------------------
(* Results: Result<U, Error> of src/src/error.rs, one record shape *)

Res(tag, status, msg, tok, errs, val) ==
    [tag |-> tag, status |-> status, msg |-> msg, tok |-> tok, errs |-> errs, val |-> val]

NoRes == Res("none", 0, "", NoToken, <<>>, "")
Ok(val) == Res("Ok", 0, "", NoToken, <<>>, val)
OkLogin(t) == Res("Ok", 0, "", t, <<>>, "LoginResponse")
NoCredentials == Res("NoCredentials", 0, "", NoToken, <<>>, "")
BadJSON == Res("BadJSON", 0, "", NoToken, <<>>, "")
ResponseDecoding == Res("ResponseDecoding", 0, "", NoToken, <<>>, "")
ReqwestError == Res("ReqwestError", 0, "", NoToken, <<>>, "")
SimpleNanoError(status, msg) == Res("SimpleNanoError", status, msg, NoToken, <<>>, "")
NanoErrors(errs) == Res("NanoErrors", 0, "", NoToken, errs, "")

IsOk(r) == r.tag = "Ok"
IsErr(r) == r.tag \notin {"Ok", "none"}

-----------------------------------------------------------------------------
(* Wire documents: what the server may put in a response body *)

\* a number on the wire: a JSON string holding digits, or a bare JSON number
WireNum(ns) == [repr : {"str", "num"}, n : ns]
\* one element of an `errors` list
ErrEntries == [code : WireNum({1}), status : WireNum({404}), title : {"T"}, detail : {"D"}]
ErrLists == UNION {[1..n -> ErrEntries] : n \in 0..MaxErrs}

ErrorVals == {[kind |-> "absent", msg |-> ""], [kind |-> "num", msg |-> ""]}
                 \cup {[kind |-> "str", msg |-> m] : m \in Msgs}
ErrorsVals == {[kind |-> "absent", list |-> <<>>]}
                 \cup {[kind |-> "list", list |-> l] : l \in ErrLists}
DataVals == {"absent", "ok", "bad"}
AuthVals == {[kind |-> "absent", tok |-> NoToken], [kind |-> "num", tok |-> NoToken]}
                 \cup {[kind |-> "str", tok |-> t] : t \in Tokens}

\* the top-level keys of a JSON object and the shape of the value under each
Objects == [error : ErrorVals, errors : ErrorsVals, data : DataVals,
            auth_token : AuthVals, extra : BOOLEAN]
EmptyObj == [error |-> [kind |-> "absent", msg |-> ""],
             errors |-> [kind |-> "absent", list |-> <<>>],
             data |-> "absent",
             auth_token |-> [kind |-> "absent", tok |-> NoToken],
             extra |-> FALSE]

\* a body: text that is not JSON (the empty body included), or a JSON value that
\* is null, an object, or something else (an array, a number, a string)
Bodies == {[json |-> FALSE, top |-> "other", obj |-> EmptyObj],
           [json |-> TRUE, top |-> "null", obj |-> EmptyObj],
           [json |-> TRUE, top |-> "other", obj |-> EmptyObj]}
             \cup {[json |-> TRUE, top |-> "object", obj |-> o] : o \in Objects}
NoBody == [json |-> FALSE, top |-> "other", obj |-> EmptyObj]

\* a response: the send failed, or a status arrived and the body could or could
\* not be read
Responses == {[sendOk |-> FALSE, status |-> 0, textOk |-> FALSE, body |-> NoBody]}
               \cup {[sendOk |-> TRUE, status |-> s, textOk |-> FALSE, body |-> NoBody] :
                        s \in Statuses}
               \cup {[sendOk |-> TRUE, status |-> s, textOk |-> TRUE, body |-> b] :
                        s \in Statuses, b \in Bodies}

\* the types make_request is asked to decode into
Expects == {"doc", "LoginResponse", "unit"}

-----------------------------------------------------------------------------
(* Decoding *)

\* (a faulty variant: a bare JSON number is taken as well as a string)
de_str_num_or_number(w) == [ok |-> TRUE, n |-> w.n]
de_str_num(w) == IF w.repr = "str" THEN [ok |-> TRUE, n |-> w.n] ELSE [ok |-> FALSE, n |-> 0]

\* ErrorData: code and status through de_str_num, title and detail as they are
ErrorDataOk(e) == de_str_num(e.code).ok /\ de_str_num(e.status).ok
ErrorData(e) == [code |-> de_str_num(e.code).n, status |-> de_str_num(e.status).n,
                 title |-> e.title, detail |-> e.detail]

\* the keys of an object, by name
HasKey(o, k) ==
    CASE k = "error" -> o.error.kind # "absent"
      [] k = "errors" -> o.errors.kind # "absent"
      [] k = "data" -> o.data # "absent"
      [] k = "auth_token" -> o.auth_token.kind # "absent"
      [] k = "extra" -> o.extra
Keys == {"error", "errors", "data", "auth_token", "extra"}
KeysOf(o) == {k \in Keys : HasKey(o, k)}

\* NanoError, untagged and deny_unknown_fields: SimpleError {error: String} or
\* ErrorList {errors: Vec<ErrorData>}, nothing else in the object
NanoErrorDecode(o) ==
    IF KeysOf(o) = {"error"} /\ o.error.kind = "str"
    THEN [variant |-> "SimpleError", error |-> o.error.msg, errors |-> <<>>]
    ELSE IF KeysOf(o) = {"errors"} /\ \A i \in DOMAIN o.errors.list : ErrorDataOk(o.errors.list[i])
    THEN [variant |-> "ErrorList", error |-> "",
          errors |-> [i \in DOMAIN o.errors.list |-> ErrorData(o.errors.list[i])]]
    ELSE [variant |-> "fail", error |-> "", errors |-> <<>>]

\* nano_val.as_object().map_or(false, |obj| contains "error" || contains "errors"),
\* nano_val being Null when the text is not JSON (unwrap_or_default)
HasErrorKey(b) ==
    b.json /\ b.top = "object" /\ (HasKey(b.obj, "error") \/ HasKey(b.obj, "errors"))

\* serde_path_to_error::deserialize into U
TypedDecode(b, expect) ==
    IF ~b.json THEN ResponseDecoding
    ELSE CASE expect = "unit" ->
                IF b.top = "null" THEN Ok("unit") ELSE ResponseDecoding
           [] expect = "LoginResponse" ->
                IF b.top = "object" /\ KeysOf(b.obj) = {"auth_token"}
                     /\ b.obj.auth_token.kind = "str"
                THEN OkLogin(b.obj.auth_token.tok) ELSE ResponseDecoding
           [] expect = "doc" ->
                IF b.top = "object" /\ KeysOf(b.obj) = {"data"} /\ b.obj.data = "ok"
                THEN Ok("doc") ELSE ResponseDecoding

\* the part of make_request after the body was read: the error-key check, then
\* the typed decode
\* (a faulty variant: the error-key check looks for `error` alone)
ClassifyBodyErrorOnly(status, b, expect) ==
    IF b.json /\ b.top = "object" /\ HasKey(b.obj, "error")
    THEN LET e == NanoErrorDecode(b.obj)
         IN  CASE e.variant = "SimpleError" -> SimpleNanoError(status, e.error)
               [] e.variant = "ErrorList" -> NanoErrors(e.errors)
               [] OTHER -> BadJSON
    ELSE TypedDecode(b, expect)
ClassifyBody(status, b, expect) ==
    IF HasErrorKey(b)
    THEN LET e == NanoErrorDecode(b.obj)
         IN  CASE e.variant = "SimpleError" -> SimpleNanoError(status, e.error)
               [] e.variant = "ErrorList" -> NanoErrors(e.errors)
               [] OTHER -> BadJSON
    ELSE TypedDecode(b, expect)

\* the two statuses answered with a fixed message before the body is read
\* (a faulty variant: the not-found arm is missing)
FixedStatusServerOnly(status) == status = INTERNAL_SERVER_ERROR
FixedStatus(status) == status \in {INTERNAL_SERVER_ERROR, NOT_FOUND}
FixedMessage(status) ==
    IF status = INTERNAL_SERVER_ERROR THEN "Internal Server Error" ELSE "Page Not Found"

\* make_request from `req.send().await?` on
Classify(r, expect) ==
    IF ~r.sendOk THEN ReqwestError
    ELSE IF FixedStatus(r.status) THEN SimpleNanoError(r.status, FixedMessage(r.status))
    ELSE IF ~r.textOk THEN ReqwestError
    ELSE ClassifyBody(r.status, r.body, expect)

\* what a request to the server may come back as: the status and the classified
\* result, over every response
Outcomes(expect) == {[status |-> r.status, res |-> Classify(r, expect)] : r \in Responses}
OutcomesDoc == Outcomes("doc")
OutcomesLogin == Outcomes("LoginResponse")
OutcomesUnit == Outcomes("unit")
OutcomesFor(expect) ==
    CASE expect = "doc" -> OutcomesDoc
      [] expect = "LoginResponse" -> OutcomesLogin
      [] expect = "unit" -> OutcomesUnit

-----------------------------------------------------------------------------
(* Tasks *)

\* operations that go through retry_request and nothing else
RetryOps == {"current_user", "notifications"}
\* operations whose login() is the one retry_request makes
NestedOps == RetryOps \cup {"add_project_session"}

\* which call a task is inside:
\*   "rr1", "rr2"  the first and second make_request of retry_request
\*   "rrchk"       the is_logged_in() of retry_request's match guard
\*   "login"       login(): its make_request, then its token write
\*   "logout"      logout(): its make_request, then its token write
\*   "aps"         the is_logged_in() of add_project_session
\*   "ili"         is_logged_in() called by the user
MakeRequestCtx == {"rr1", "rr2", "login", "logout"}
IsLoggedInCtx == {"rrchk", "aps", "ili"}

ExpectOf(ctx) ==
    CASE ctx = "login" -> "LoginResponse"
      [] ctx = "logout" -> "unit"
      [] OTHER -> "doc"

\* a task that runs nothing. pc: "idle", "rwait" (awaiting token.read()), "rheld"
\* (holding the read guard), "sent" (awaiting the response), "wwait" (awaiting
\* token.write()), "wheld" (holding the write guard), "done" (the operation
\* returned res). The fields after res are history of the operation under way:
\* the result of the first and second attempt and of the login, whether the
\* first response had the UNAUTHORIZED status, whether a token was held when it
\* arrived, what the
\* guard's is_logged_in() read, the Authorization header of the request in
\* flight, and how often the original request was sent, login() was called,
\* and any request was sent.
IdleTask ==
    [pc |-> "idle", op |-> "none", ctx |-> "none", res |-> NoRes,
     att1 |-> NoRes, att2 |-> NoRes, lres |-> NoRes,
     unauth1 |-> FALSE, held1 |-> FALSE, chk |-> "none", hdr |-> NoToken,
     sends |-> 0, logins |-> 0, reqs |-> 0]

Begin(o, c) == [IdleTask EXCEPT !.pc = "rwait", !.op = o, !.ctx = c]
Finish(t, r) == [t EXCEPT !.pc = "done", !.ctx = "none", !.res = r]

Init ==
    /\ creds \in {"None", "Some"}
    /\ creds0 = creds
    /\ token = NoToken
    /\ rlock = {}
    /\ wlock = {}
    /\ task = [p \in Clients |-> IdleTask]
    /\ input = [sendOk |-> FALSE, status |-> 0, textOk |-> FALSE, body |-> NoBody,
                expect |-> "doc"]
    /\ output = NoRes

Shared == <<creds, creds0, token, rlock, wlock>>
Pure == <<input, output>>

-----------------------------------------------------------------------------
(* Starting an operation *)

\* current_user(), notifications(): retry_request, whose first make_request
\* starts by awaiting the token's read lock
fetch(p, o) ==
    /\ task[p].pc = "idle"
    /\ task' = [task EXCEPT ![p] = Begin(o, "rr1")]
    /\ UNCHANGED <<Shared, Pure>>

\* add_project_session(): is_logged_in() first
add_project_session(p) ==
    /\ task[p].pc = "idle"
    /\ task' = [task EXCEPT ![p] = Begin("add_project_session", "aps")]
    /\ UNCHANGED <<Shared, Pure>>

\* login(): the credentials are looked at before anything is sent. Entered by
\* a task `t` that is about to call it, from idle or from retry_request.
\* (a faulty variant: the sign-in is sent without looking at the credentials)
login_enter_unchecked(t) ==
    [t EXCEPT !.pc = "rwait", !.ctx = "login", !.logins = @ + 1]
login_enter(t) ==
    IF creds = "None"
    THEN Finish([t EXCEPT !.logins = @ + 1, !.lres = NoCredentials], NoCredentials)
    ELSE [t EXCEPT !.pc = "rwait", !.ctx = "login", !.logins = @ + 1]

login(p) ==
    /\ task[p].pc = "idle"
    /\ task' = [task EXCEPT ![p] = login_enter([IdleTask EXCEPT !.op = "login"])]
    /\ UNCHANGED <<Shared, Pure>>

\* logout(): its make_request, whatever the session's state
logout(p) ==
    /\ task[p].pc = "idle"
    /\ task' = [task EXCEPT ![p] = Begin("logout", "logout")]
    /\ UNCHANGED <<Shared, Pure>>

is_logged_in(p) ==
    /\ task[p].pc = "idle"
    /\ task' = [task EXCEPT ![p] = Begin("is_logged_in", "ili")]
    /\ UNCHANGED <<Shared, Pure>>

-----------------------------------------------------------------------------
(* The token lock *)

\* token.read().await: granted while no writer holds the lock. (tokio queues
\* the waiters of its RwLock in arrival order; here a waiter is granted the
\* lock in any order, which allows every order tokio can produce.)
read_lock(p) ==
    /\ task[p].pc = "rwait"
    /\ wlock = {}
    /\ rlock' = rlock \cup {p}
    /\ task' = [task EXCEPT ![p].pc = "rheld"]
    /\ UNCHANGED <<creds, creds0, token, wlock, Pure>>

\* token.write().await: granted while nobody holds the lock
\* (a faulty variant: the write guard is granted while readers hold theirs)
write_lock_among_readers(p) ==
    /\ task[p].pc = "wwait"
    /\ wlock = {}
    /\ wlock' = {p}
    /\ task' = [task EXCEPT ![p].pc = "wheld"]
    /\ UNCHANGED <<creds, creds0, token, rlock, Pure>>
write_lock(p) ==
    /\ task[p].pc = "wwait"
    /\ rlock = {} /\ wlock = {}
    /\ wlock' = {p}
    /\ task' = [task EXCEPT ![p].pc = "wheld"]
    /\ UNCHANGED <<creds, creds0, token, rlock, Pure>>

-----------------------------------------------------------------------------
(* make_request *)

\* the Authorization header of a request built while the token is `tok`:
\* the token itself, or no header (NoToken) when none is held
\* (a faulty variant: the sign-in request is built without the header)
AuthorizationNotOnLogin(tok, ctx) == IF ctx = "login" THEN NoToken ELSE tok
Authorization(tok, ctx) == tok

\* with the read guard held: attach the header, drop the guard, send
\* (a faulty variant: the read guard is kept while the request is in flight)
make_request_send_holding(p) ==
    /\ task[p].pc = "rheld"
    /\ task[p].ctx \in MakeRequestCtx
    /\ rlock' = rlock
    /\ task' = [task EXCEPT ![p] =
                  [@ EXCEPT !.pc = "sent",
                            !.hdr = Authorization(token, task[p].ctx),
                            !.reqs = @ + 1,
                            !.sends = IF task[p].ctx \in {"rr1", "rr2"} THEN @ + 1 ELSE @]]
    /\ UNCHANGED <<creds, creds0, token, wlock, Pure>>
make_request_send(p) ==
    /\ task[p].pc = "rheld"
    /\ task[p].ctx \in MakeRequestCtx
    /\ rlock' = rlock \ {p}
    /\ task' = [task EXCEPT ![p] =
                  [@ EXCEPT !.pc = "sent",
                            !.hdr = Authorization(token, task[p].ctx),
                            !.reqs = @ + 1,
                            !.sends = IF task[p].ctx \in {"rr1", "rr2"} THEN @ + 1 ELSE @]]
    /\ UNCHANGED <<creds, creds0, token, wlock, Pure>>

\* retry_request's match on the first result: the arm with the guard is tried
\* for a SimpleNanoError whose code is UNAUTHORIZED
\* (a faulty variant: any error of the first attempt is matched)
MatchesAnyError(r) == IsErr(r)
MatchesUnauthorized(r) == r.tag = "SimpleNanoError" /\ r.status = UNAUTHORIZED

\* the first attempt returned `o`
after_first(t, o, held) ==
    LET t1 == [t EXCEPT !.att1 = o.res, !.unauth1 = (o.status = UNAUTHORIZED), !.held1 = held, !.hdr = NoToken]
    IN  IF MatchesUnauthorized(o.res)
        THEN [t1 EXCEPT !.pc = "rwait", !.ctx = "rrchk"]
        ELSE Finish(t1, o.res)

\* the second attempt returned `o`: it is the result of retry_request
\* (a faulty variant: the second result is matched like the first, a retry loop)
after_second_loop(t, o) ==
    IF MatchesUnauthorized(o.res)
    THEN [t EXCEPT !.att2 = o.res, !.hdr = NoToken, !.pc = "rwait", !.ctx = "rrchk"]
    ELSE Finish([t EXCEPT !.att2 = o.res, !.hdr = NoToken], o.res)
after_second(t, o) ==
    Finish([t EXCEPT !.att2 = o.res, !.hdr = NoToken], o.res)

\* (a faulty variant: the result of the sign-in request is not looked at)
after_login_request_unchecked(t, o) ==
    [t EXCEPT !.lres = o.res, !.hdr = NoToken, !.pc = "wwait"]
\* (a faulty variant: a failed re-login gives the caller the first attempt's error)
after_login_request_first_error(t, o) ==
    LET t1 == [t EXCEPT !.lres = o.res, !.hdr = NoToken]
    IN  IF IsOk(o.res) THEN [t1 EXCEPT !.pc = "wwait"]
        ELSE Finish(t1, IF t.op \in NestedOps THEN t.att1 ELSE o.res)
\* login's make_request returned `o`: `?` returns an error, else on to the write
after_login_request(t, o) ==
    LET t1 == [t EXCEPT !.lres = o.res, !.hdr = NoToken]
    IN  IF IsOk(o.res) THEN [t1 EXCEPT !.pc = "wwait"] ELSE Finish(t1, o.res)

\* logout's make_request returned `o`: `?` returns an error, else on to the write
\* (a faulty variant: the result of the logout request is not looked at)
after_logout_request_unchecked(t, o) ==
    [t EXCEPT !.lres = o.res, !.hdr = NoToken, !.pc = "wwait"]
after_logout_request(t, o) ==
    LET t1 == [t EXCEPT !.lres = o.res, !.hdr = NoToken]
    IN  IF IsOk(o.res) THEN [t1 EXCEPT !.pc = "wwait"] ELSE Finish(t1, o.res)

\* the response arrives and is classified; the caller goes on
make_request_recv(p) ==
    /\ task[p].pc = "sent"
    /\ \E o \in OutcomesFor(ExpectOf(task[p].ctx)) :
          task' = [task EXCEPT ![p] =
                     CASE task[p].ctx = "rr1" -> after_first(task[p], o, token # NoToken)
                       [] task[p].ctx = "rr2" -> after_second(task[p], o)
                       [] task[p].ctx = "login" -> after_login_request(task[p], o)
                       [] task[p].ctx = "logout" -> after_logout_request(task[p], o)]
    /\ UNCHANGED <<Shared, Pure>>

-----------------------------------------------------------------------------
(* is_logged_in, and what its callers do with the answer *)

\* retry_request's guard read `logged`
\* (a faulty variant: the guard does not ask is_logged_in)
after_guard_always(t, logged) ==
    login_enter([t EXCEPT !.chk = IF logged THEN "yes" ELSE "no"])
\* (a faulty variant: no login of its own while another task is signing in)
after_guard_coalesced(t, logged) ==
    IF logged
    THEN IF \E q \in Clients : task[q].ctx = "login"
         THEN [t EXCEPT !.chk = "yes", !.pc = "rwait", !.ctx = "rr2"]
         ELSE login_enter([t EXCEPT !.chk = "yes"])
    ELSE Finish([t EXCEPT !.chk = "no"], t.att1)
\* (a faulty variant: the request is resent without a login)
after_guard_nologin(t, logged) ==
    IF logged
    THEN [t EXCEPT !.chk = "yes", !.pc = "rwait", !.ctx = "rr2"]
    ELSE Finish([t EXCEPT !.chk = "no"], t.att1)
after_guard(t, logged) ==
    IF logged
    THEN login_enter([t EXCEPT !.chk = "yes"])
    ELSE Finish([t EXCEPT !.chk = "no"], t.att1)

\* add_project_session read `logged`
\* (a faulty variant: the check is missing)
after_aps_check_lax(t, logged) ==
    [t EXCEPT !.pc = "rwait", !.ctx = "rr1"]
after_aps_check(t, logged) ==
    IF logged
    THEN [t EXCEPT !.pc = "rwait", !.ctx = "rr1"]
    ELSE Finish(t, NoCredentials)

\* (a faulty variant: the token is taken out to be looked at)
is_logged_in_take(p) ==
    /\ task[p].pc = "rheld"
    /\ task[p].ctx \in IsLoggedInCtx
    /\ rlock' = rlock \ {p}
    /\ token' = NoToken
    /\ LET logged == token # NoToken
       IN  task' = [task EXCEPT ![p] =
                      CASE task[p].ctx = "rrchk" -> after_guard(task[p], logged)
                        [] task[p].ctx = "aps" -> after_aps_check(task[p], logged)
                        [] task[p].ctx = "ili" ->
                             Finish(task[p], Ok(IF logged THEN "true" ELSE "false"))]
    /\ UNCHANGED <<creds, creds0, wlock, Pure>>
\* with the read guard held: token.is_some(), drop the guard
is_logged_in_read(p) ==
    /\ task[p].pc = "rheld"
    /\ task[p].ctx \in IsLoggedInCtx
    /\ rlock' = rlock \ {p}
    /\ LET logged == token # NoToken
       IN  task' = [task EXCEPT ![p] =
                      CASE task[p].ctx = "rrchk" -> after_guard(task[p], logged)
                        [] task[p].ctx = "aps" -> after_aps_check(task[p], logged)
                        [] task[p].ctx = "ili" ->
                             Finish(task[p], Ok(IF logged THEN "true" ELSE "false"))]
    /\ UNCHANGED <<creds, creds0, token, wlock, Pure>>

-----------------------------------------------------------------------------
(* The token writes *)

\* login: token.write().await.replace(res.auth_token); then Ok(()), and
\* retry_request goes on to its second make_request
login_write(p) ==
    /\ task[p].pc = "wheld"
    /\ task[p].ctx = "login"
    /\ token' = task[p].lres.tok
    /\ wlock' = wlock \ {p}
    /\ task' = [task EXCEPT ![p] =
                  IF task[p].op \in NestedOps
                  THEN [@ EXCEPT !.pc = "rwait", !.ctx = "rr2", !.lres = Ok("unit")]
                  ELSE Finish([@ EXCEPT !.lres = Ok("unit")], Ok("unit"))]
    /\ UNCHANGED <<creds, creds0, rlock, Pure>>

\* (a faulty variant: the token is read, not taken)
logout_write_keep(p) ==
    /\ task[p].pc = "wheld"
    /\ task[p].ctx = "logout"
    /\ token' = token
    /\ wlock' = wlock \ {p}
    /\ task' = [task EXCEPT ![p] = Finish(@, Ok("unit"))]
    /\ UNCHANGED <<creds, creds0, rlock, Pure>>
\* logout: token.write().await.take(); then Ok(())
logout_write(p) ==
    /\ task[p].pc = "wheld"
    /\ task[p].ctx = "logout"
    /\ token' = NoToken
    /\ wlock' = wlock \ {p}
    /\ task' = [task EXCEPT ![p] = Finish(@, Ok("unit"))]
    /\ UNCHANGED <<creds, creds0, rlock, Pure>>

-----------------------------------------------------------------------------
(* The caller *)

\* the caller takes the result; the task is free for the next operation
return(p) ==
    /\ task[p].pc = "done"
    /\ task' = [task EXCEPT ![p] = IdleTask]
    /\ UNCHANGED <<Shared, Pure>>

\* the caller drops the future at an await point: the operation stops there
cancel(p) ==
    /\ task[p].pc \in {"rwait", "sent", "wwait"}
    /\ task' = [task EXCEPT ![p] = IdleTask]
    /\ UNCHANGED <<Shared, Pure>>

Next ==
    \E p \in Clients :
        \/ \E o \in RetryOps : fetch(p, o)
        \/ add_project_session(p)
        \/ login(p)
        \/ logout(p)
        \/ is_logged_in(p)
        \/ read_lock(p)
        \/ write_lock(p)
        \/ make_request_send(p)
        \/ make_request_recv(p)
        \/ is_logged_in_read(p)
        \/ login_write(p)
        \/ logout_write(p)
        \/ return(p)
        \/ cancel(p)

Spec == Init /\ [][Next]_vars

-----------------------------------------------------------------------------
(* The classifier on its own: every response, every expected type *)

ClassifyInputs ==
    {[sendOk |-> r.sendOk, status |-> r.status, textOk |-> r.textOk, body |-> r.body,
      expect |-> e] : r \in Responses, e \in Expects}

InitClassify ==
    /\ creds = "None"
    /\ creds0 = creds
    /\ token = NoToken
    /\ rlock = {}
    /\ wlock = {}
    /\ task = [p \in Clients |-> IdleTask]
    /\ input \in ClassifyInputs
    /\ output = NoRes

\* make_request's handling of the response `input`
classify ==
    /\ output = NoRes
    /\ output' = Classify(input, input.expect)
    /\ UNCHANGED <<Shared, task, input>>

NextClassify == classify

SpecClassify == InitClassify /\ [][NextClassify]_vars

-----------------------------------------------------------------------------
(* The resource codec (src/src/data.rs, src/src/utils.rs): one resource    *)
(* document decoded as the generic Object or as one kind's struct, and a   *)
(* resource value encoded for an outbound body                             *)

\* the largest id a document or a reference carries
MaxId == 2
Ids == 0..MaxId

\* the resource kinds: one struct per kind, made by obj_ty!
NanoKinds ==
    {"Badge", "Challenge", "DailyAggregate", "FavoriteAuthor", "FavoriteBook",
     "Genre", "Group", "GroupExternalLink", "Location", "NanoMessage",
     "Notification", "Page", "Post", "Project", "ProjectSession",
     "StopWatch", "Timer", "User", "WritingLocation", "WritingMethod",
     "GroupUser", "LocationGroup", "ProjectChallenge", "UserBadge"}

\* the `type` tag under which the Object enum reads and writes each kind
ObjectTag(k) ==
    CASE k = "Badge" -> "badges"
      [] k = "Challenge" -> "challenges"
      [] k = "DailyAggregate" -> "daily-aggregates"
      [] k = "FavoriteAuthor" -> "favorite-authors"
      [] k = "FavoriteBook" -> "favorite-books"
      [] k = "Genre" -> "genres"
      [] k = "Group" -> "groups"
      [] k = "GroupExternalLink" -> "group-external-links"
      [] k = "Location" -> "locations"
      [] k = "NanoMessage" -> "nanomessages"
      [] k = "Notification" -> "notifications"
      [] k = "Page" -> "pages"
      [] k = "Post" -> "posts"
      [] k = "Project" -> "projects"
      [] k = "ProjectSession" -> "project-sessions"
      [] k = "StopWatch" -> "stopwatches"
      [] k = "Timer" -> "timers"
      [] k = "User" -> "users"
      [] k = "WritingLocation" -> "writing-locations"
      [] k = "WritingMethod" -> "writing-methods"
      [] k = "GroupUser" -> "group-users"
      [] k = "LocationGroup" -> "location-groups"
      [] k = "ProjectChallenge" -> "project-challenges"
      [] k = "UserBadge" -> "user-badges"

\* An attribute is a pair <<wire name, Rust type>>; what a field holds is left
\* out.  The four flattened groups of UserData stand as one attribute each,
\* named by the prefix its members share.  A field read with deserialize_with
\* must be present even when it is an Option.
\* the attributes a kind's Data struct cannot be decoded without
RequiredFields(k) ==
    CASE k = "Badge" ->
           {<<"active", "bool">>, <<"adheres-to", "AdheresTo">>,
            <<"awarded", "String">>, <<"awarded-description", "String">>,
            <<"badge-type", "BadgeType">>, <<"description", "String">>,
            <<"generic-description", "String">>, <<"list-order", "u64">>,
            <<"title", "String">>, <<"unawarded", "String">>,
            <<"winner", "bool">>}
      [] k = "Challenge" ->
           {<<"default-goal", "u64">>, <<"ends-at", "NaiveDate">>,
            <<"name", "String">>, <<"starts-at", "NaiveDate">>,
            <<"unit-type", "UnitType">>, <<"user-id", "u64">>,
            <<"writing-type", "WritingType">>}
      [] k = "DailyAggregate" ->
           {<<"count", "u64">>, <<"day", "NaiveDate">>,
            <<"project-id", "u64">>, <<"unit-type", "UnitType">>}
      [] k = "FavoriteAuthor" ->
           {<<"name", "String">>, <<"user-id", "u64">>}
      [] k = "FavoriteBook" ->
           {<<"title", "String">>, <<"user-id", "u64">>}
      [] k = "Genre" ->
           {<<"name", "String">>, <<"user-id", "u64">>}
      [] k = "Group" ->
           {<<"approved-by-id", "u64">>, <<"cancelled-by-id", "u64">>,
            <<"created-at", "DateTime<Utc>">>, <<"group-type", "GroupType">>,
            <<"name", "String">>, <<"slug", "String">>,
            <<"updated-at", "DateTime<Utc>">>}
      [] k = "GroupExternalLink" ->
           {<<"group-id", "u64">>, <<"url", "String">>}
      [] k = "Location" ->
           {<<"city", "String">>, <<"country", "String">>,
            <<"latitude", "f64">>, <<"longitude", "f64">>,
            <<"name", "String">>, <<"postal-code", "de_opt_str_num">>,
            <<"state", "String">>}
      [] k = "NanoMessage" ->
           {<<"content", "String">>, <<"created-at", "DateTime<Utc>">>,
            <<"group-id", "u64">>, <<"official", "bool">>,
            <<"updated-at", "DateTime<Utc>">>, <<"user-id", "u64">>}
      [] k = "Notification" ->
           {<<"action-type", "ActionType">>, <<"content", "String">>,
            <<"created-at", "DateTime<Utc>">>,
            <<"display-at", "DateTime<Utc>">>,
            <<"display-status", "DisplayStatus">>, <<"headline", "String">>,
            <<"updated-at", "DateTime<Utc>">>, <<"user-id", "u64">>}
      [] k = "Page" ->
           {<<"body", "String">>, <<"url", "String">>,
            <<"headline", "String">>, <<"content-type", "ContentType">>}
      [] k = "Post" ->
           {<<"body", "String">>, <<"content-type", "ContentType">>,
            <<"headline", "String">>, <<"published", "bool">>}
      [] k = "Project" ->
           {<<"created-at", "DateTime<Utc>">>, <<"privacy", "PrivacySetting">>,
            <<"slug", "String">>, <<"status", "ProjectStatus">>,
            <<"title", "String">>, <<"unit-type", "UnitType">>,
            <<"user-id", "u64">>, <<"writing-type", "WritingType">>}
      [] k = "ProjectSession" ->
           {<<"count", "i64">>, <<"unit-type", "UnitType">>}
      [] k = "StopWatch" ->
           {<<"start", "DateTime<Utc>">>}
      [] k = "Timer" ->
           {<<"cancelled", "bool">>, <<"duration", "de_duration_mins">>,
            <<"start", "DateTime<Utc>">>}
      [] k = "User" ->
           {<<"admin-level", "AdminLevel">>,
            <<"confirmed-at", "DateTime<Utc>">>,
            <<"created-at", "DateTime<Utc>">>, <<"halo", "bool">>,
            <<"laurels", "u64">>, <<"name", "String">>,
            <<"notifications-viewed-at", "DateTime<Utc>">>,
            <<"postal-code", "de_opt_str_num">>,
            <<"registration-path", "RegistrationPath">>,
            <<"setting-session-count-by-session", "u8">>,
            <<"setting-session-more-info", "bool">>, <<"slug", "String">>,
            <<"stats-", "StatsInfo">>, <<"time-zone", "String">>}
      [] k = "WritingLocation" ->
           {<<"name", "String">>}
      [] k = "WritingMethod" ->
           {<<"name", "String">>}
      [] k = "GroupUser" ->
           {<<"created-at", "DateTime<Utc>">>,
            <<"entry-method", "EntryMethod">>, <<"group-id", "u64">>,
            <<"group-type", "GroupType">>,
            <<"invitation-accepted", "InvitationStatus">>,
            <<"num-unread-messages", "u64">>, <<"primary", "u64">>,
            <<"updated-at", "DateTime<Utc>">>, <<"user-id", "u64">>}
      [] k = "LocationGroup" ->
           {<<"group-id", "u64">>, <<"location-id", "u64">>,
            <<"primary", "bool">>}
      [] k = "ProjectChallenge" ->
           {<<"challenge-id", "u64">>, <<"current-count", "u64">>,
            <<"ends-at", "NaiveDate">>, <<"event-type", "EventType">>,
            <<"goal", "u64">>, <<"name", "String">>, <<"project-id", "u64">>,
            <<"starts-at", "NaiveDate">>, <<"unit-type", "UnitType">>,
            <<"user-id", "u64">>}
      [] k = "UserBadge" ->
           {<<"badge-id", "u64">>, <<"created-at", "DateTime<Utc>">>,
            <<"project-challenge-id", "u64">>, <<"user-id", "u64">>}

\* the Option attributes of a kind's Data struct
OptionalFields(k) ==
    CASE k = "Badge" ->
           {<<"suborder", "u64">>}
      [] k = "Challenge" ->
           {<<"event-type", "EventType">>, <<"flexible-goal", "bool">>,
            <<"prep-starts-at", "NaiveDate">>,
            <<"win-allowed-at", "NaiveDate">>}
      [] k = "DailyAggregate" ->
           {<<"user-id", "u64">>}
      [] k = "FavoriteAuthor" ->
           {}
      [] k = "FavoriteBook" ->
           {}
      [] k = "Genre" ->
           {}
      [] k = "Group" ->
           {<<"avatar", "String">>, <<"description", "String">>,
            <<"end-dt", "DateTime<Utc>">>, <<"forum-link", "String">>,
            <<"group-id", "u64">>, <<"joining-rule", "JoiningRule">>,
            <<"latitude", "f64">>, <<"longitude", "f64">>,
            <<"max-member-count", "u64">>, <<"member-count", "u64">>,
            <<"plate", "String">>, <<"start-dt", "DateTime<Utc>">>,
            <<"time-zone", "String">>, <<"url", "String">>,
            <<"user-id", "u64">>}
      [] k = "GroupExternalLink" ->
           {<<"label", "String">>}
      [] k = "Location" ->
           {<<"county", "String">>, <<"formatted-address", "String">>,
            <<"map-url", "String">>, <<"municipality", "String">>,
            <<"neighborhood", "String">>, <<"street1", "String">>,
            <<"street2", "String">>, <<"utc-offset", "i64">>}
      [] k = "NanoMessage" ->
           {<<"send-email", "bool">>, <<"sender-avatar-url", "String">>,
            <<"sender-name", "String">>, <<"sender-slug", "String">>}
      [] k = "Notification" ->
           {<<"action-id", "u64">>, <<"data-count", "u64">>,
            <<"image-url", "String">>, <<"last-viewed-at", "DateTime<Utc>">>,
            <<"redirect-url", "String">>}
      [] k = "Page" ->
           {<<"show-after", "DateTime<Utc>">>,
            <<"promotional-card-image", "String">>}
      [] k = "Post" ->
           {<<"api-code", "String">>, <<"card-image", "String">>,
            <<"expires-at", "NaiveDate">>, <<"external-link", "String">>,
            <<"offer-code", "String">>, <<"order", "u64">>,
            <<"subhead", "String">>}
      [] k = "Project" ->
           {<<"cover", "String">>, <<"excerpt", "String">>,
            <<"pinterest-url", "String">>, <<"playlist-url", "String">>,
            <<"primary", "i64">>, <<"summary", "String">>,
            <<"unit-count", "u64">>}
      [] k = "ProjectSession" ->
           {<<"created-at", "DateTime<Utc>">>, <<"end", "DateTime<Utc>">>,
            <<"feeling", "Feeling">>, <<"how", "How">>,
            <<"project-challenge-id", "u64">>, <<"project-id", "u64">>,
            <<"session-date", "NaiveDate">>, <<"start", "DateTime<Utc>">>,
            <<"where", "Where">>}
      [] k = "StopWatch" ->
           {<<"stop", "DateTime<Utc>">>}
      [] k = "Timer" ->
           {}
      [] k = "User" ->
           {<<"avatar", "String">>, <<"bio", "String">>,
            <<"discourse-username", "String">>, <<"email", "String">>,
            <<"email-", "EmailSettings">>, <<"location", "String">>,
            <<"notification-", "NotificationSettings">>, <<"plate", "String">>,
            <<"privacy-", "PrivacySettings">>}
      [] k = "WritingLocation" ->
           {}
      [] k = "WritingMethod" ->
           {}
      [] k = "GroupUser" ->
           {<<"entry-at", "DateTime<Utc>">>, <<"exit-at", "DateTime<Utc>">>,
            <<"exit-method", "String">>, <<"group-code-id", "u64">>,
            <<"invited-by-id", "u64">>, <<"is-admin", "bool">>,
            <<"latest-message", "String">>}
      [] k = "LocationGroup" ->
           {}
      [] k = "ProjectChallenge" ->
           {<<"feeling", "Feeling">>, <<"how", "How">>,
            <<"last-recompute", "DateTime<Utc>">>, <<"speed", "u64">>,
            <<"start-count", "u64">>, <<"streak", "u64">>, <<"when", "u64">>,
            <<"won-at", "DateTime<Utc>">>, <<"writing-location", "String">>,
            <<"writing-type", "WritingType">>}
      [] k = "UserBadge" ->
           {}

\* the kinds whose Data struct is deny_unknown_fields
DenyUnknownFields ==
    {"Badge", "Challenge", "DailyAggregate", "FavoriteAuthor", "FavoriteBook",
     "Genre", "Group", "GroupExternalLink", "NanoMessage", "Notification",
     "Page", "Post", "Project", "ProjectSession", "StopWatch",
     "Timer", "GroupUser", "LocationGroup", "ProjectChallenge", "UserBadge"}

Fields(k) == RequiredFields(k) \cup OptionalFields(k)
FlattenedGroups == {<<"email-", "EmailSettings">>, <<"notification-", "NotificationSettings">>,
                    <<"privacy-", "PrivacySettings">>, <<"stats-", "StatsInfo">>}
\* an attribute no kind has
UnknownField == <<"unknown-field", "String">>

\* NanoKind::api_name, the plural wire name: the name the `type` tag carries
api_name(k) == ObjectTag(k)

\* NanoKind::api_unique_name, the singular wire name
api_unique_name(k) ==
    CASE k = "Badge" -> "badge"
      [] k = "Challenge" -> "challenge"
      [] k = "DailyAggregate" -> "daily-aggregate"
      [] k = "FavoriteAuthor" -> "favorite-author"
      [] k = "FavoriteBook" -> "favorite-book"
      [] k = "Genre" -> "genre"
      [] k = "Group" -> "group"
      [] k = "GroupExternalLink" -> "group-external-link"
      [] k = "Location" -> "location"
      [] k = "NanoMessage" -> "nanomessage"
      [] k = "Notification" -> "notification"
      [] k = "Page" -> "page"
      [] k = "Post" -> "post"
      [] k = "Project" -> "project"
      [] k = "ProjectSession" -> "project-session"
      [] k = "StopWatch" -> "stopwatch"
      [] k = "Timer" -> "timer"
      [] k = "User" -> "user"
      [] k = "WritingLocation" -> "writing-location"
      [] k = "WritingMethod" -> "writing-method"
      [] k = "GroupUser" -> "group-user"
      [] k = "LocationGroup" -> "location-group"
      [] k = "ProjectChallenge" -> "project-challenge"
      [] k = "UserBadge" -> "user-badge"

\* a wire name that names no kind
UnknownName == "bogus"
\* the member is not in the document
NoMember == "(absent)"

\* NanoKind::from_name: the kind a plural or a singular wire name stands for
\* (a faulty variant: the plural names alone are known)
from_name_plural(name) ==
    IF \E k \in NanoKinds : name = api_name(k)
    THEN [ok |-> TRUE, kind |-> CHOOSE k \in NanoKinds : name = api_name(k)]
    ELSE [ok |-> FALSE, kind |-> "none"]
from_name(name) ==
    IF \E k \in NanoKinds : name \in {api_name(k), api_unique_name(k)}
    THEN [ok |-> TRUE,
          kind |-> CHOOSE k \in NanoKinds : name \in {api_name(k), api_unique_name(k)}]
    ELSE [ok |-> FALSE, kind |-> "none"]

de_nanokind(name) == from_name(name)
se_nanokind(kind) == api_name(kind)
se_str_id(num) == [repr |-> "str", n |-> num]
\* (a faulty variant: no id counts as the unassigned one)
is_zero_never(n) == FALSE
is_zero(n) == n = 0

-----------------------------------------------------------------------------
(* Wire documents of the codec *)

\* the wire names tried as a relationship key and as a reference's `type`
SampleNames == {api_name("Project"), api_unique_name("Project"), UnknownName}

\* {"id": ..., "type": ...}
WireRefs == [id : WireNum(Ids), type : SampleNames]
\* one member of a `relationships` object: its key, its `data` (absent, or a
\* list of references) and whether it has `links`
WireRelations ==
    [key : SampleNames, data : {"absent"}, refs : {<<>>}, links : BOOLEAN]
      \cup [key : SampleNames, data : {"list"},
            refs : {<<>>} \cup {<<r>> : r \in WireRefs}, links : BOOLEAN]
\* a `relationships` object: absent (the empty sequence with some = FALSE) or
\* its members
NoWireRels == [some |-> FALSE, members |-> <<>>]
WireRels == {NoWireRels} \cup {[some |-> TRUE, members |-> <<m>>] : m \in WireRelations}

\* the attributes objects tried for a document written for kind w: all of the
\* kind's attributes, the required ones alone, all of them and an unknown
\* one, and all of them but one flattened group
AttrVariants(w) ==
    {Fields(w), RequiredFields(w), Fields(w) \cup {UnknownField}}
      \cup {Fields(w) \ {g} : g \in FlattenedGroups \cap Fields(w)}

\* a resource document, its members in the order id, type, attributes,
\* relationships
WireDoc(ty, id, attrs, rels) == [type |-> ty, id |-> id, attrs |-> attrs, rels |-> rels]
NoDoc == WireDoc(NoMember, [repr |-> "num", n |-> 0], {}, NoWireRels)

\* documents that vary the type, the id and the attributes
AttrDocs ==
    UNION {{WireDoc(ty, id, a, NoWireRels) :
               ty \in {ObjectTag(w), UnknownName}, id \in WireNum(Ids),
               a \in AttrVariants(w)} : w \in NanoKinds}
\* the kinds whose documents are tried with every `relationships` object
RelDocKinds == {"ProjectSession", "User"}
\* documents that vary the `relationships` object
RelDocs ==
    {WireDoc(ObjectTag(w), [repr |-> "str", n |-> 1], Fields(w), r) :
        w \in RelDocKinds, r \in WireRels \ {NoWireRels}}

-----------------------------------------------------------------------------
(* Resource values *)

ObjectRef(id, kind) == [id |-> id, kind |-> kind]
\* Option<RelationInfo>: `included` as the set of its (kind, references)
\* entries, `relations` as the set of kinds that have a RelationLink
NoRelationInfo == [some |-> FALSE, included |-> {}, relations |-> {}]
RelationInfo(included, relations) ==
    [some |-> TRUE, included |-> included, relations |-> relations]
\* a kind's Object struct, or (generic) the Object enum holding it; attributes
\* as the set of the attributes that hold a value
Resource(generic, kind, id, attrs, rels) ==
    [generic |-> generic, kind |-> kind, id |-> id, attrs |-> attrs, rels |-> rels]
NoValue == Resource(FALSE, "none", 0, {}, NoRelationInfo)

\* the outcome of a decode: a value, an error returned to the caller, or a panic
Decoded(v) == [tag |-> "Ok", val |-> v]
DecodeErr == [tag |-> "Err", val |-> NoValue]
DecodePanic == [tag |-> "Panic", val |-> NoValue]

-----------------------------------------------------------------------------
(* Decoding a resource document *)

\* ObjectRef: id through de_str_num, type through de_nanokind
ObjectRefOk(w) == de_str_num(w.id).ok /\ de_nanokind(w.type).ok
DecodeObjectRef(w) == ObjectRef(de_str_num(w.id).n, de_nanokind(w.type).kind)

\* the members as a HashMap<String, DataWrap>, then a kind for the key of
\* every member that has `data`
de_rel_includes(members) ==
    LET M == DOMAIN members
    IN  IF \E i \in M : members[i].data = "list"
                           /\ \E j \in DOMAIN members[i].refs : ~ObjectRefOk(members[i].refs[j])
        THEN [tag |-> "Err", map |-> {}]
        ELSE IF \E i \in M : members[i].data # "absent" /\ ~from_name(members[i].key).ok
        THEN [tag |-> "Panic", map |-> {}]
        ELSE [tag |-> "Ok",
              map |-> {[kind |-> from_name(members[i].key).kind,
                        refs |-> [j \in DOMAIN members[i].refs |->
                                     DecodeObjectRef(members[i].refs[j])]] :
                          i \in {i \in M : members[i].data # "absent"}}]

\* the members as a HashMap<String, LinkWrap>, then a kind for every key
de_relation(members) ==
    LET M == DOMAIN members
    IN  IF \E i \in M : ~members[i].links
        THEN [tag |-> "Err", map |-> {}]
        ELSE IF \E i \in M : ~from_name(members[i].key).ok
        THEN [tag |-> "Panic", map |-> {}]
        ELSE [tag |-> "Ok", map |-> {from_name(members[i].key).kind : i \in M}]

\* RelationInfo: both flattened fields read every member, `included` first
DecodeRelationInfo(r) ==
    IF ~r.some THEN [tag |-> "Ok", rels |-> NoRelationInfo]
    ELSE LET inc == de_rel_includes(r.members)
             rel == de_relation(r.members)
         IN  IF inc.tag # "Ok" THEN [tag |-> inc.tag, rels |-> NoRelationInfo]
             ELSE IF rel.tag # "Ok" THEN [tag |-> rel.tag, rels |-> NoRelationInfo]
             ELSE [tag |-> "Ok", rels |-> RelationInfo(inc.map, rel.map)]

\* a kind's Data struct: every required attribute is there, none of the
\* kind's attributes holds a value of another type, and a deny_unknown_fields
\* struct takes no other attribute
AttributesOk(k, attrs) ==
    /\ RequiredFields(k) \subseteq attrs
    /\ \A f \in attrs : \A g \in Fields(k) : f[1] = g[1] => f[2] = g[2]
    /\ k \in DenyUnknownFields => attrs \subseteq Fields(k)

\* a kind's Object struct (obj_ty!): id, attributes, relationships; any other
\* member of the document, `type` included, is skipped
DecodeStruct(generic, k, doc) ==
    IF ~de_str_num(doc.id).ok THEN DecodeErr
    ELSE IF ~AttributesOk(k, doc.attrs) THEN DecodeErr
    ELSE LET r == DecodeRelationInfo(doc.rels)
         IN  CASE r.tag = "Err" -> DecodeErr
               [] r.tag = "Panic" -> DecodePanic
               [] OTHER -> Decoded(Resource(generic, k, de_str_num(doc.id).n,
                                            doc.attrs \cap Fields(k), r.rels))

\* the Object enum, tagged by `type`
DecodeObject(doc) ==
    IF \E k \in NanoKinds : ObjectTag(k) = doc.type
    THEN DecodeStruct(TRUE, CHOOSE k \in NanoKinds : ObjectTag(k) = doc.type, doc)
    ELSE DecodeErr

\* what the caller decodes into: the Object enum or one kind's struct
Targets == {"Object"} \cup NanoKinds
Decode(expect, doc) ==
    IF expect = "Object" THEN DecodeObject(doc) ELSE DecodeStruct(FALSE, expect, doc)

-----------------------------------------------------------------------------
(* Encoding a resource value *)

SerializeObjectRef(r) == [id |-> se_str_id(r.id), type |-> se_nanokind(r.kind)]

\* one member per entry: a single reference under the singular name as
\* {"data": ref}, any other number of them under the plural name as a bare array
se_rel_includes(included) ==
    {IF Len(e.refs) = 1
     THEN [key |-> api_unique_name(e.kind), data |-> "single",
           refs |-> <<SerializeObjectRef(e.refs[1])>>, links |-> FALSE]
     ELSE [key |-> api_name(e.kind), data |-> "array",
           refs |-> [j \in DOMAIN e.refs |-> SerializeObjectRef(e.refs[j])],
           links |-> FALSE] : e \in included}

\* one member per kind: the RelationLink under the plural name
se_relation(relations) ==
    {[key |-> api_name(k), data |-> "absent", refs |-> <<>>, links |-> TRUE] :
        k \in relations}

NoMembers == [some |-> FALSE, members |-> {}]
SerializeRelationInfo(rels) ==
    IF ~rels.some THEN NoMembers
    ELSE [some |-> TRUE,
          members |-> se_rel_includes(rels.included) \cup se_relation(rels.relations)]

\* a kind's Object struct: id left out when is_zero and written as it is
\* otherwise, relationships left out when None, every attribute but an unset
\* flattened group written (an unset Option as null); the Object enum adds
\* the `type` tag
Serialize(v) ==
    [type |-> IF v.generic THEN ObjectTag(v.kind) ELSE NoMember,
     id |-> IF is_zero(v.id) THEN [repr |-> "absent", n |-> 0]
            ELSE [repr |-> "num", n |-> v.id],
     attrs |-> v.attrs \cup (Fields(v.kind) \ FlattenedGroups),
     rels |-> SerializeRelationInfo(v.rels)]
NoEncoding == [type |-> NoMember, id |-> [repr |-> "absent", n |-> 0], attrs |-> {},
               rels |-> NoMembers]

\* the resource add_project_session builds for its request body
NewProjectSession(project_id, project_challenge_id) ==
    Resource(TRUE, "ProjectSession", 0,
             {<<"count", "i64">>, <<"unit-type", "UnitType">>},
             RelationInfo({[kind |-> "Project",
                            refs |-> <<ObjectRef(project_id, "Project")>>],
                           [kind |-> "ProjectChallenge",
                            refs |-> <<ObjectRef(project_challenge_id, "ProjectChallenge")>>]},
                          {}))

-----------------------------------------------------------------------------
(* The codec on its own: a document is decoded and the value re-encoded, or *)
(* a value built by the caller is encoded                                   *)

CodecInputs ==
    {[from |-> "wire", expect |-> e, doc |-> d, val |-> NoValue] :
        e \in Targets, d \in AttrDocs \cup RelDocs}
      \cup {[from |-> "built", expect |-> "Object", doc |-> NoDoc,
             val |-> NewProjectSession(p, c)] : p \in Ids, c \in Ids}

CodecStart == [stage |-> "start", res |-> DecodeErr, body |-> NoEncoding]

InitCodec ==
    /\ creds = "None"
    /\ creds0 = creds
    /\ token = NoToken
    /\ rlock = {}
    /\ wlock = {}
    /\ task = [p \in Clients |-> IdleTask]
    /\ input \in CodecInputs
    /\ output = CodecStart

\* the document `input.doc` is decoded into `input.expect`
decode ==
    /\ output.stage = "start" /\ input.from = "wire"
    /\ output' = [stage |-> "decoded", res |-> Decode(input.expect, input.doc),
                  body |-> NoEncoding]
    /\ UNCHANGED <<Shared, task, input>>

\* the decoded value, or the value the caller built, is encoded
encode ==
    /\ \/ output.stage = "decoded" /\ output.res.tag = "Ok"
       \/ output.stage = "start" /\ input.from = "built"
    /\ LET v == IF input.from = "built" THEN input.val ELSE output.res.val
       IN  output' = [stage |-> "encoded", res |-> Decoded(v), body |-> Serialize(v)]
    /\ UNCHANGED <<Shared, task, input>>

NextCodec == decode \/ encode

SpecCodec == InitCodec /\ [][NextCodec]_vars

-----------------------------------------------------------------------------
(* Properties of the resource codec, stated for SpecCodec *)

\* the document `input.doc` was decoded, and what came of it is in output.res
WasDecoded == output.stage = "decoded" /\ input.from = "wire"
\* a value was encoded: output.res.val is the value, output.body its encoding
WasEncoded == output.stage = "encoded"
\* the kind the `type` of the document names, "none" for an unknown name
NamedKind ==
    IF \E k \in NanoKinds : ObjectTag(k) = input.doc.type
    THEN CHOOSE k \in NanoKinds : ObjectTag(k) = input.doc.type
    ELSE "none"
\* the kind whose struct the decode fills
TargetKind == IF input.expect = "Object" THEN NamedKind ELSE input.expect
FieldNames(fields) == {f[1] : f \in fields}

\* C12 as stated: when the caller decodes into one kind's struct, a document
\* whose `type` names a different kind fails with an error, whatever the two
\* kinds are.
C12_AsStated ==
    (/\ WasDecoded
     /\ input.expect \in NanoKinds
     /\ NamedKind \in NanoKinds \ {input.expect})
        => output.res.tag = "Err"

\* C13 as stated: a document with an attribute that is not in the schema of
\* the kind decoded (and is not a flattened group of a user) fails to decode,
\* for every kind; and a user document that has every other attribute
\* decodes whichever of its flattened groups are absent.
C13_AsStated ==
    /\ (/\ WasDecoded
        /\ TargetKind \in NanoKinds
        /\ \E f \in input.doc.attrs \ FlattenedGroups :
              f[1] \notin FieldNames(Fields(TargetKind)))
           => output.res.tag = "Err"
    /\ (/\ WasDecoded
        /\ TargetKind = "User"
        /\ input.doc.id.repr = "str"
        /\ ~input.doc.rels.some
        /\ Fields("User") \ FlattenedGroups \subseteq input.doc.attrs
        /\ input.doc.attrs \subseteq Fields("User"))
           => output.res.tag = "Ok"

\* a wire name that names no kind is decoded: the `type` read by the Object
\* enum, the key of a `relationships` member, or the `type` of a reference
UnknownNameDecoded ==
    \/ input.expect = "Object" /\ input.doc.type = UnknownName
    \/ \E i \in DOMAIN input.doc.rels.members :
          \/ input.doc.rels.members[i].key = UnknownName
          \/ \E j \in DOMAIN input.doc.rels.members[i].refs :
                input.doc.rels.members[i].refs[j].type = UnknownName

\* C14 as stated: a document in which a wire name that names no kind is
\* decoded yields an error value: not a value (the name mapped to some kind,
\* or its member dropped) and not a panic.
C14_AsStated ==
    WasDecoded /\ UnknownNameDecoded => output.res.tag = "Err"

\* the references of a `relationships` object on the wire, as a set
WireRefsOf(members) ==
    UNION {{members[i].refs[j] : j \in DOMAIN members[i].refs} : i \in DOMAIN members}
\* the references of an encoded `relationships` object, as a set
EncodedRefsOf(members) ==
    UNION {{m.refs[j] : j \in DOMAIN m.refs} : m \in members}

\* C17 as stated: a document whose id is the string "n", n not 0, decodes to
\* a resource of id n, and encoding that resource writes the id as the string
\* "n", never as a bare number; the same holds of every reference
\* {"id": "n", "type": ...} of its relationships.
C17_AsStated ==
    WasEncoded /\ input.from = "wire" =>
        /\ (input.doc.id.repr = "str" /\ input.doc.id.n # 0) =>
              /\ output.res.val.id = input.doc.id.n
              /\ output.body.id = [repr |-> "str", n |-> input.doc.id.n]
        /\ \A r \in WireRefsOf(input.doc.rels.members) :
              (r.id.repr = "str" /\ r.id.n # 0) =>
                 /\ \E e \in output.res.val.rels.included :
                       \E j \in DOMAIN e.refs : e.refs[j].id = r.id.n
                 /\ \E w \in EncodedRefsOf(output.body.rels.members) :
                       w.id = [repr |-> "str", n |-> r.id.n]

\* C18: an encoded resource whose id is 0 has no `id` member, an encoded
\* resource whose id is not 0 has the `id` member, holding that id, and the
\* body add_project_session builds for its request has no `id` member.
C18_SentinelId ==
    WasEncoded =>
        /\ output.res.val.id = 0 => output.body.id.repr = "absent"
        /\ output.res.val.id # 0 =>
              output.body.id.repr # "absent" /\ output.body.id.n = output.res.val.id
        /\ input.from = "built" => output.body.id.repr = "absent"

\* C18 witness: the resource add_project_session builds was encoded: a
\* project session with the `type` tag and no `id` member, its references to
\* the project and to the project challenge carrying their ids.
C18_Witness ==
    /\ WasEncoded /\ input.from = "built"
    /\ output.body.type = "project-sessions"
    /\ output.body.id.repr = "absent"
    /\ \E m \in output.body.rels.members :
          m.key = "project" /\ m.refs[1].id = [repr |-> "str", n |-> 1]

-----------------------------------------------------------------------------
(* The enumerations of the attributes (src/src/enums.rs): each is written   *)
(* as a number or a string (serde into) and read back from one (serde       *)
(* try_from, or from for the open-ended Where and How)                      *)

\* a value on the wire held by an enumeration attribute: a JSON number or a
\* JSON string
WNum(n) == [repr |-> "num", n |-> n, s |-> ""]
WStr(s) == [repr |-> "str", n |-> 0, s |-> s]

\* the enumerations decoded with try_from: an undefined wire value is an error
StrictEnums ==
    {"PrivacySetting", "ProjectStatus", "EventType", "GroupType",
     "EntryMethod", "AdminLevel", "ActionType", "DisplayStatus",
     "WritingType", "ContentType", "RegistrationPath", "BadgeType",
     "JoiningRule", "UnitType", "AdheresTo", "Feeling", "InvitationStatus"}
\* the enumerations decoded with from: an undefined wire value is Other(value)
OpenEnums == {"Where", "How"}
Enums == StrictEnums \cup OpenEnums

\* the type an enumeration is read from and written as
WireType(e) ==
    CASE e = "PrivacySetting" -> "u8"
      [] e = "ProjectStatus" -> "str"
      [] e = "EventType" -> "u8"
      [] e = "GroupType" -> "str"
      [] e = "EntryMethod" -> "str"
      [] e = "AdminLevel" -> "u8"
      [] e = "ActionType" -> "str"
      [] e = "DisplayStatus" -> "u8"
      [] e = "WritingType" -> "u8"
      [] e = "ContentType" -> "str"
      [] e = "RegistrationPath" -> "str"
      [] e = "BadgeType" -> "str"
      [] e = "JoiningRule" -> "u8"
      [] e = "UnitType" -> "u8"
      [] e = "AdheresTo" -> "str"
      [] e = "Feeling" -> "u8"
      [] e = "Where" -> "u8"
      [] e = "How" -> "u64"
      [] e = "InvitationStatus" -> "i8"

\* the enumerations whose try_from matches on val.to_ascii_lowercase()
Lowercased ==
    {"ProjectStatus", "GroupType", "EntryMethod", "RegistrationPath",
     "BadgeType"}

\* the variants of an enumeration that carry no value
Variants(e) ==
    CASE e = "PrivacySetting" ->
           {"Private", "Buddies", "Anyone"}
      [] e = "ProjectStatus" ->
           {"Prepping", "InProgress", "Drafted", "Completed", "Published"}
      [] e = "EventType" ->
           {"NanoWrimo", "CampNano", "Custom"}
      [] e = "GroupType" ->
           {"Everyone", "Region", "Buddies", "WritingGroup", "Event"}
      [] e = "EntryMethod" ->
           {"Join", "Creator", "Create", "Invited", "Blocked"}
      [] e = "AdminLevel" ->
           {"User", "Admin"}
      [] e = "ActionType" ->
           {"BadgeAwarded", "BuddiesPage", "NanoMessages", "ProjectsPage"}
      [] e = "DisplayStatus" ->
           {"AllNotifs", "RecentNotifs"}
      [] e = "WritingType" ->
           {"Novel", "ShortStories", "Memoir", "Script", "Nonfiction",
            "Poetry", "Other"}
      [] e = "ContentType" ->
           {"GeneralContent", "StackedContent", "Plate", "GroupOfPeople",
            "GroupOfPageCards", "PersonCard", "PepTalk", "PlainText"}
      [] e = "RegistrationPath" ->
           {"Email", "Facebook", "Google"}
      [] e = "BadgeType" ->
           {"WordCount", "SelfAwarded", "Participation"}
      [] e = "JoiningRule" ->
           {"AdminOnly", "AnyUser"}
      [] e = "UnitType" ->
           {"Words", "Hours"}
      [] e = "AdheresTo" ->
           {"Unknown", "User", "ProjectChallenge"}
      [] e = "Feeling" ->
           {"Upset", "Stressed", "Okay", "PrettyGood", "Great"}
      [] e = "Where" ->
           {"Home", "Office", "Library", "Cafe"}
      [] e = "How" ->
           {"ByHand", "Typewriter", "Laptop", "Phone"}
      [] e = "InvitationStatus" ->
           {"Blocked", "Sent", "Accepted"}

\* the arms of TryFrom / From for the enumeration: <<pattern, variant>>
TryFromArms(e) ==
    CASE e = "PrivacySetting" ->
           {<<WNum(0), "Private">>, <<WNum(1), "Buddies">>,
            <<WNum(2), "Anyone">>}
      [] e = "ProjectStatus" ->
           {<<WStr("prepping"), "Prepping">>,
            <<WStr("in progress"), "InProgress">>,
            <<WStr("inprogress"), "InProgress">>,
            <<WStr("drafted"), "Drafted">>,
            <<WStr("completed"), "Completed">>,
            <<WStr("published"), "Published">>}
      [] e = "EventType" ->
           {<<WNum(0), "NanoWrimo">>, <<WNum(1), "CampNano">>,
            <<WNum(2), "Custom">>}
      [] e = "GroupType" ->
           {<<WStr("everyone"), "Everyone">>, <<WStr("region"), "Region">>,
            <<WStr("buddies"), "Buddies">>,
            <<WStr("writing group"), "WritingGroup">>,
            <<WStr("event"), "Event">>}
      [] e = "EntryMethod" ->
           {<<WStr("join"), "Join">>, <<WStr("creator"), "Creator">>,
            <<WStr("create"), "Create">>, <<WStr("invited"), "Invited">>,
            <<WStr("blocked"), "Blocked">>}
      [] e = "AdminLevel" ->
           {<<WNum(0), "User">>, <<WNum(1), "Admin">>}
      [] e = "ActionType" ->
           {<<WStr("BADGE_AWARDED"), "BadgeAwarded">>,
            <<WStr("BUDDIES_PAGE"), "BuddiesPage">>,
            <<WStr("NANOMESSAGES"), "NanoMessages">>,
            <<WStr("PROJECTS_PAGE"), "ProjectsPage">>}
      [] e = "DisplayStatus" ->
           {<<WNum(0), "AllNotifs">>, <<WNum(1), "RecentNotifs">>}
      [] e = "WritingType" ->
           {<<WNum(0), "Novel">>, <<WNum(1), "ShortStories">>,
            <<WNum(2), "Memoir">>, <<WNum(3), "Script">>,
            <<WNum(4), "Nonfiction">>, <<WNum(5), "Poetry">>,
            <<WNum(6), "Other">>}
      [] e = "ContentType" ->
           {<<WStr("General content"), "GeneralContent">>,
            <<WStr("Stacked Content"), "StackedContent">>,
            <<WStr("Plate"), "Plate">>,
            <<WStr("Group of people"), "GroupOfPeople">>,
            <<WStr("Group of page cards"), "GroupOfPageCards">>,
            <<WStr("Person Card"), "PersonCard">>,
            <<WStr("Pep Talk"), "PepTalk">>,
            <<WStr("Plain Text"), "PlainText">>}
      [] e = "RegistrationPath" ->
           {<<WStr("email"), "Email">>, <<WStr("facebook"), "Facebook">>,
            <<WStr("google"), "Google">>}
      [] e = "BadgeType" ->
           {<<WStr("word count"), "WordCount">>,
            <<WStr("self-awarded"), "SelfAwarded">>,
            <<WStr("participation"), "Participation">>}
      [] e = "JoiningRule" ->
           {<<WNum(0), "AdminOnly">>, <<WNum(1), "AnyUser">>}
      [] e = "UnitType" ->
           {<<WNum(0), "Words">>, <<WNum(1), "Hours">>}
      [] e = "AdheresTo" ->
           {<<WStr(""), "Unknown">>, <<WStr("user"), "User">>,
            <<WStr("project_challenge"), "ProjectChallenge">>}
      [] e = "Feeling" ->
           {<<WNum(1), "Upset">>, <<WNum(2), "Stressed">>,
            <<WNum(3), "Okay">>, <<WNum(4), "PrettyGood">>,
            <<WNum(5), "Great">>}
      [] e = "Where" ->
           {<<WNum(0), "Home">>, <<WNum(1), "Office">>,
            <<WNum(2), "Library">>, <<WNum(3), "Cafe">>}
      [] e = "How" ->
           {<<WNum(0), "ByHand">>, <<WNum(1), "Typewriter">>,
            <<WNum(2), "Laptop">>, <<WNum(3), "Phone">>}
      [] e = "InvitationStatus" ->
           {<<WNum(-2), "Blocked">>, <<WNum(0), "Sent">>,
            <<WNum(1), "Accepted">>}

\* the arms of From<enumeration> / Into: <<variant, wire value>>
IntoArms(e) ==
    CASE e = "PrivacySetting" ->
           {<<"Private", WNum(0)>>, <<"Buddies", WNum(1)>>,
            <<"Anyone", WNum(2)>>}
      [] e = "ProjectStatus" ->
           {<<"Prepping", WStr("Prepping")>>,
            <<"InProgress", WStr("In Progress")>>,
            <<"Drafted", WStr("Drafted")>>,
            <<"Completed", WStr("Completed")>>,
            <<"Published", WStr("Published")>>}
      [] e = "EventType" ->
           {<<"NanoWrimo", WNum(0)>>, <<"CampNano", WNum(1)>>,
            <<"Custom", WNum(2)>>}
      [] e = "GroupType" ->
           {<<"Everyone", WStr("everyone")>>, <<"Region", WStr("region")>>,
            <<"Buddies", WStr("buddies")>>,
            <<"WritingGroup", WStr("writing group")>>,
            <<"Event", WStr("event")>>}
      [] e = "EntryMethod" ->
           {<<"Join", WStr("join")>>, <<"Creator", WStr("creator")>>,
            <<"Create", WStr("create")>>, <<"Invited", WStr("invited")>>,
            <<"Blocked", WStr("blocked")>>}
      [] e = "AdminLevel" ->
           {<<"User", WNum(0)>>, <<"Admin", WNum(1)>>}
      [] e = "ActionType" ->
           {<<"BadgeAwarded", WStr("BADGE_AWARDED")>>,
            <<"BuddiesPage", WStr("BUDDIES_PAGE")>>,
            <<"NanoMessages", WStr("NANOMESSAGES")>>,
            <<"ProjectsPage", WStr("PROJECTS_PAGE")>>}
      [] e = "DisplayStatus" ->
           {<<"AllNotifs", WNum(0)>>, <<"RecentNotifs", WNum(1)>>}
      [] e = "WritingType" ->
           {<<"Novel", WNum(0)>>, <<"ShortStories", WNum(1)>>,
            <<"Memoir", WNum(2)>>, <<"Script", WNum(3)>>,
            <<"Nonfiction", WNum(4)>>, <<"Poetry", WNum(5)>>,
            <<"Other", WNum(8)>>}
      [] e = "ContentType" ->
           {<<"GeneralContent", WStr("General content")>>,
            <<"StackedContent", WStr("Stacked Content")>>,
            <<"Plate", WStr("Plate")>>,
            <<"GroupOfPeople", WStr("Group of people")>>,
            <<"GroupOfPageCards", WStr("Group of page cards")>>,
            <<"PersonCard", WStr("Person Card")>>,
            <<"PepTalk", WStr("Pep Talk")>>,
            <<"PlainText", WStr("Plain Text")>>}
      [] e = "RegistrationPath" ->
           {<<"Email", WStr("email")>>, <<"Facebook", WStr("Facebook")>>,
            <<"Google", WStr("Google")>>}
      [] e = "BadgeType" ->
           {<<"WordCount", WStr("word count")>>,
            <<"SelfAwarded", WStr("self-awarded")>>,
            <<"Participation", WStr("participation")>>}
      [] e = "JoiningRule" ->
           {<<"AdminOnly", WNum(0)>>, <<"AnyUser", WNum(1)>>}
      [] e = "UnitType" ->
           {<<"Words", WNum(0)>>, <<"Hours", WNum(1)>>}
      [] e = "AdheresTo" ->
           {<<"Unknown", WStr("")>>, <<"User", WStr("user")>>,
            <<"ProjectChallenge", WStr("project_challenge")>>}
      [] e = "Feeling" ->
           {<<"Upset", WNum(1)>>, <<"Stressed", WNum(2)>>,
            <<"Okay", WNum(3)>>, <<"PrettyGood", WNum(4)>>,
            <<"Great", WNum(5)>>}
      [] e = "Where" ->
           {<<"Home", WNum(0)>>, <<"Office", WNum(1)>>,
            <<"Library", WNum(2)>>, <<"Cafe", WNum(3)>>}
      [] e = "How" ->
           {<<"ByHand", WNum(0)>>, <<"Typewriter", WNum(1)>>,
            <<"Laptop", WNum(2)>>, <<"Phone", WNum(3)>>}
      [] e = "InvitationStatus" ->
           {<<"Blocked", WNum(-2)>>, <<"Sent", WNum(0)>>,
            <<"Accepted", WNum(1)>>}

\* the strings tried on the wire: every string an arm names, its lower-case
\* form, two in another case and one no arm names
WireStrings ==
    {"", "BADGE_AWARDED", "BUDDIES_PAGE", "Completed", "Drafted", "Facebook",
     "General content", "Google", "Group of page cards", "Group of people",
     "In Progress", "NANOMESSAGES", "PREPPING", "PROJECTS_PAGE", "Pep Talk",
     "Person Card", "Plain Text", "Plate", "Prepping", "Published",
     "Stacked Content", "badge_awarded", "blocked", "buddies",
     "buddies_page", "completed", "create", "creator", "drafted", "email",
     "event", "everyone", "facebook", "general content", "google",
     "group of page cards", "group of people", "in progress", "inprogress",
     "invited", "join", "nanomessages", "participation", "pep talk",
     "person card", "plain text", "plate", "prepping", "project_challenge",
     "projects_page", "published", "region", "self-awarded",
     "stacked content", "user", "word count", "writing group", "bogus"}

\* str::to_ascii_lowercase, on the strings tried
to_ascii_lowercase(s) ==
    CASE s = "BADGE_AWARDED" -> "badge_awarded"
      [] s = "BUDDIES_PAGE" -> "buddies_page"
      [] s = "Completed" -> "completed"
      [] s = "Drafted" -> "drafted"
      [] s = "Facebook" -> "facebook"
      [] s = "General content" -> "general content"
      [] s = "Google" -> "google"
      [] s = "Group of page cards" -> "group of page cards"
      [] s = "Group of people" -> "group of people"
      [] s = "In Progress" -> "in progress"
      [] s = "NANOMESSAGES" -> "nanomessages"
      [] s = "PREPPING" -> "prepping"
      [] s = "PROJECTS_PAGE" -> "projects_page"
      [] s = "Pep Talk" -> "pep talk"
      [] s = "Person Card" -> "person card"
      [] s = "Plain Text" -> "plain text"
      [] s = "Plate" -> "plate"
      [] s = "Prepping" -> "prepping"
      [] s = "Published" -> "published"
      [] s = "Stacked Content" -> "stacked content"
      [] OTHER -> s

\* the largest of the consecutive numbers tried on the wire
MaxWire == 9
\* the numbers tried on the wire: small ones, negative ones, and the first
\* number a u8 cannot hold with the one before it
WireNumbers == (-3..MaxWire) \cup {255, 256}
WireValues == {WNum(n) : n \in WireNumbers} \cup {WStr(s) : s \in WireStrings}

\* an enumeration value: a variant, or Other(n) of an open-ended enumeration
Variant(name) == [name |-> name, n |-> 0]
Other(n) == [name |-> "Other", n |-> n]
EnumValues(e) ==
    {Variant(v) : v \in Variants(e)}
      \cup IF e \in OpenEnums
           THEN {Other(n) : n \in {n \in WireNumbers : n >= 0 /\ n <= 255}}
           ELSE {}

\* the wire value deserializes into the type the enumeration is read from
\* (the upper end of u64 is beyond the numbers tried)
FitsWireType(e, w) ==
    CASE WireType(e) = "str" -> w.repr = "str"
      [] WireType(e) = "u8" -> w.repr = "num" /\ w.n >= 0 /\ w.n <= 255
      [] WireType(e) = "i8" -> w.repr = "num" /\ w.n >= -128 /\ w.n <= 127
      [] WireType(e) = "u64" -> w.repr = "num" /\ w.n >= 0

NoVariant == [ok |-> FALSE, v |-> Variant("none")]
\* Deserialize: the wire value as the wire type, then TryFrom (From for the
\* open-ended enumerations)
EnumDeserialize(e, w) ==
    IF ~FitsWireType(e, w) THEN NoVariant
    ELSE LET val == IF e \in Lowercased THEN WStr(to_ascii_lowercase(w.s)) ELSE w
         IN  IF \E a \in TryFromArms(e) : a[1] = val
             THEN [ok |-> TRUE,
                   v |-> Variant((CHOOSE a \in TryFromArms(e) : a[1] = val)[2])]
             ELSE IF e \in OpenEnums THEN [ok |-> TRUE, v |-> Other(w.n)]
             ELSE NoVariant

\* Serialize: Into the wire type
EnumSerialize(e, v) ==
    IF e \in OpenEnums /\ v.name = "Other" THEN WNum(v.n)
    ELSE (CHOOSE a \in IntoArms(e) : a[1] = v.name)[2]

-----------------------------------------------------------------------------
(* The enumerations on their own: a value is written and read back, or a    *)
(* wire value is read                                                       *)

EnumInputs ==
    UNION {{[from |-> "value", enum |-> e, val |-> v, wire |-> WNum(0)] :
               v \in EnumValues(e)} : e \in Enums}
      \cup {[from |-> "wire", enum |-> e, val |-> Variant("none"), wire |-> w] :
               e \in Enums, w \in WireValues}

InitEnum ==
    /\ creds = "None"
    /\ creds0 = creds
    /\ token = NoToken
    /\ rlock = {}
    /\ wlock = {}
    /\ task = [p \in Clients |-> IdleTask]
    /\ input \in EnumInputs
    /\ output = [stage |-> "start", wire |-> input.wire, res |-> NoVariant]

\* the value `input.val` is written
serialize ==
    /\ output.stage = "start" /\ input.from = "value"
    /\ output' = [stage |-> "written", wire |-> EnumSerialize(input.enum, input.val),
                  res |-> NoVariant]
    /\ UNCHANGED <<Shared, task, input>>

\* the wire value, given or just written, is read
deserialize ==
    /\ \/ output.stage = "written"
       \/ output.stage = "start" /\ input.from = "wire"
    /\ output' = [stage |-> "read", wire |-> output.wire,
                  res |-> EnumDeserialize(input.enum, output.wire)]
    /\ UNCHANGED <<Shared, task, input>>

NextEnum == serialize \/ deserialize

SpecEnum == InitEnum /\ [][NextEnum]_vars

-----------------------------------------------------------------------------
(* Properties of the enumerations, stated for SpecEnum *)

\* C15 as stated: a variant of an enumeration with a strict wire mapping,
\* written and read back, reads as that variant.
C15_AsStated ==
    (output.stage = "read" /\ input.from = "value" /\ input.enum \in StrictEnums)
        => output.res = [ok |-> TRUE, v |-> input.val]

\* C16 as stated: reading a wire value that no variant of a strict
\* enumeration is written as fails; reading into Where or How a number that
\* is none of the codes 0..3 gives Other of that number.
C16_AsStated ==
    (output.stage = "read" /\ input.from = "wire") =>
        /\ (/\ input.enum \in StrictEnums
            /\ \A v \in EnumValues(input.enum) : EnumSerialize(input.enum, v) # input.wire)
              => ~output.res.ok
        /\ (/\ input.enum \in OpenEnums
            /\ FitsWireType(input.enum, input.wire)
            /\ input.wire.n \notin 0..3)
              => output.res = [ok |-> TRUE, v |-> Other(input.wire.n)]

-----------------------------------------------------------------------------
(* The resolver (src/src/data.rs): get_ref on an envelope, and the query    *)
(* get_all_include_filtered builds (src/src/client.rs)                      *)

\* how many resources an `included` list holds at most
MaxIncluded == 2
\* the kinds and the ids of the resources and of the references tried
ResolveKinds == {"User", "Project"}
ResolveIds == {7, 8}
\* a resource of `included`: what get_ref reads of it, and a mark that tells
\* two resources of one kind and id apart
IncludedObjects == [kind : ResolveKinds, id : ResolveIds, mark : {"x", "y"}]
\* Option<Vec<Object>>
NoIncluded == [some |-> FALSE, list |-> <<>>]
IncludedLists ==
    {NoIncluded}
      \cup {[some |-> TRUE, list |-> l] :
               l \in UNION {[1..n -> IncludedObjects] : n \in 0..MaxIncluded}}
\* ItemResponse and CollectionResponse
Envelopes == [shape : {"item", "collection"}, included : IncludedLists]

\* Option<&Object>: None, or the element of `included` at a position
None == [some |-> FALSE, at |-> 0]
Some(i) == [some |-> TRUE, at |-> i]

\* Iterator::find over list[i..], by kind and id
RECURSIVE find(_, _, _)
\* (a faulty variant: the id alone decides)
find_by_id(list, i, obj_ref) ==
    IF i > Len(list) THEN None
    ELSE IF list[i].id = obj_ref.id THEN Some(i)
    ELSE find(list, i + 1, obj_ref)
find(list, i, obj_ref) ==
    IF i > Len(list) THEN None
    ELSE IF list[i].id = obj_ref.id /\ list[i].kind = obj_ref.kind THEN Some(i)
    ELSE find(list, i + 1, obj_ref)

\* self.included.as_ref().and_then(|val| val.iter().find(...))
get_ref(self, obj_ref) ==
    IF ~self.included.some THEN None ELSE find(self.included.list, 1, obj_ref)

ResolveInputs == [self : Envelopes, obj_ref : [id : ResolveIds, kind : ResolveKinds]]

InitResolve ==
    /\ creds = "None"
    /\ creds0 = creds
    /\ token = NoToken
    /\ rlock = {}
    /\ wlock = {}
    /\ task = [p \in Clients |-> IdleTask]
    /\ input \in ResolveInputs
    /\ output = [called |-> FALSE, ret |-> None]

\* get_ref(&self, obj_ref) on the envelope `input.self`
resolve ==
    /\ ~output.called
    /\ output' = [called |-> TRUE, ret |-> get_ref(input.self, input.obj_ref)]
    /\ UNCHANGED <<Shared, task, input>>

SpecResolve == InitResolve /\ [][resolve]_vars

-----------------------------------------------------------------------------
(* The query of get_all_include_filtered *)

\* how many kinds an include list names, how many entries a filter list has
MaxInclude == 2
MaxFilter == 2
\* the kinds, the filter fields and the ids tried
QueryKinds == {"User", "Project", "ProjectChallenge"}
FilterEntries == [field : {"user_id", "project_id"}, id : 1..2]
SeqUpTo(S, n) == UNION {[1..k -> S] : k \in 0..n}

\* a pair of the query: ("filter[<field>]", id.to_string()) or ("include",
\* the names joined by commas); the names are kept as the sequence the join
\* runs over, the id as the number its decimal string writes
FilterPair(i) == [name |-> <<"filter", i.field>>, value |-> [id |-> i.id, names |-> <<>>]]
IncludePair(names) == [name |-> <<"include">>, value |-> [id |-> 0, names |-> names]]

\* (a faulty variant: the include pair is pushed for an empty list too)
add_included_always(data, include) ==
    Append(data, IncludePair([j \in DOMAIN include |-> api_name(include[j])]))
add_included(data, include) ==
    IF include # <<>>
    THEN Append(data, IncludePair([j \in DOMAIN include |-> api_name(include[j])]))
    ELSE data

\* for i in filter { data.push(...) }, from entry i on
RECURSIVE push_filters(_, _, _)
push_filters(data, filter, i) ==
    IF i > Len(filter) THEN data
    ELSE push_filters(Append(data, FilterPair(filter[i])), filter, i + 1)

\* the path and the query get_all_include_filtered hands to retry_request
get_all_include_filtered(ty, include, filter) ==
    [path |-> api_name(ty), data |-> add_included(push_filters(<<>>, filter, 1), include)]

QueryInputs ==
    [ty : QueryKinds, include : SeqUpTo(QueryKinds, MaxInclude),
     filter : SeqUpTo(FilterEntries, MaxFilter)]
NoQuery == [built |-> FALSE, path |-> "", data |-> <<>>]

InitQuery ==
    /\ creds = "None"
    /\ creds0 = creds
    /\ token = NoToken
    /\ rlock = {}
    /\ wlock = {}
    /\ task = [p \in Clients |-> IdleTask]
    /\ input \in QueryInputs
    /\ output = NoQuery

\* get_all_include_filtered builds the query for `input`
build_query ==
    /\ ~output.built
    /\ LET q == get_all_include_filtered(input.ty, input.include, input.filter)
       IN  output' = [built |-> TRUE, path |-> q.path, data |-> q.data]
    /\ UNCHANGED <<Shared, task, input>>

SpecQuery == InitQuery /\ [][build_query]_vars

-----------------------------------------------------------------------------
(* Properties of the resolver, stated for SpecResolve, and of the query,    *)
(* stated for SpecQuery                                                     *)

\* the positions of `included` whose resource has the kind and the id of the
\* reference
Matches ==
    {i \in DOMAIN input.self.included.list :
        /\ input.self.included.list[i].kind = input.obj_ref.kind
        /\ input.self.included.list[i].id = input.obj_ref.id}

\* C19: get_ref returns the first resource of `included`, in list order,
\* whose kind and id both equal the reference's, and nothing when `included`
\* is absent, is empty or holds no such resource (a resource that has only
\* the id or only the kind of the reference is never returned); the call
\* leaves the envelope as it was, and no request goes out.
C19_Resolver ==
    /\ [](output.called =>
            IF Matches = {}
            THEN output.ret = None
            ELSE /\ output.ret.some
                 /\ output.ret.at \in Matches
                 /\ \A i \in Matches : output.ret.at <= i)
    /\ [][output'.called /\ ~output.called =>
            /\ input' = input
            /\ \A p \in Clients : task'[p].sends = task[p].sends]_vars

\* C19 witness: `included` holds a resource that has the id of the reference
\* but another kind and, after it, one that has both; get_ref returned the
\* second.
C19_Witness ==
    /\ output.called
    /\ Len(input.self.included.list) = 2
    /\ input.self.included.list[1].id = input.obj_ref.id
    /\ input.self.included.list[1].kind # input.obj_ref.kind
    /\ Matches = {2}
    /\ output.ret = Some(2)

\* C20: the query get_all_include_filtered builds holds one pair
\* filter[<field>]=<id> per filter entry, in the order of the entries, then
\* one pair include=<plural names, in the order given, joined by commas> when
\* the include list is not empty, and no include pair when it is empty.
C20_QueryConstruction ==
    output.built =>
        LET n == Len(input.filter)
        IN  /\ Len(output.data) = n + (IF input.include = <<>> THEN 0 ELSE 1)
            /\ \A i \in 1..n :
                  /\ output.data[i].name = <<"filter", input.filter[i].field>>
                  /\ output.data[i].value.id = input.filter[i].id
            /\ input.include # <<>> =>
                  /\ output.data[n + 1].name = <<"include">>
                  /\ output.data[n + 1].value.names =
                        [j \in DOMAIN input.include |-> api_name(input.include[j])]
            /\ input.include = <<>> =>
                  \A i \in DOMAIN output.data : output.data[i].name # <<"include">>

\* C20 witness: two filter entries and two kinds to include gave a query of
\* three pairs, the include pair last with the two plural names in order.
C20_Witness ==
    /\ output.built
    /\ Len(input.filter) = 2 /\ input.filter[1] # input.filter[2]
    /\ input.include = <<"Project", "User">>
    /\ Len(output.data) = 3
    /\ output.data[3] = IncludePair(<<"projects", "users">>)

-----------------------------------------------------------------------------
(* Properties of the classifier, stated for SpecClassify *)

\* the response `input` was classified, and its body was read
Classified == output # NoRes
BodyReached == Classified /\ input.sendOk /\ input.textOk
                 /\ input.status \notin {INTERNAL_SERVER_ERROR, NOT_FOUND}
InputIsObject == input.body.json /\ input.body.top = "object"
InputKeys == IF InputIsObject THEN KeysOf(input.body.obj) ELSE {}

\* C9: a response with status 500 or 404 yields the fixed-message error
\* carrying that status whatever its body is and whether or not the body can
\* be read: never a decoded value, a server-reported error, a decoding error
\* or the transport error of a failed body read.
C9_StatusPrecedence ==
    Classified /\ input.sendOk =>
        /\ input.status = INTERNAL_SERVER_ERROR =>
              output = SimpleNanoError(INTERNAL_SERVER_ERROR, "Internal Server Error")
        /\ input.status = NOT_FOUND =>
              output = SimpleNanoError(NOT_FOUND, "Page Not Found")

\* C9 witness: a 500 response whose body is a valid `data` document of the
\* expected type was classified as the fixed server error.
C9_Witness ==
    /\ Classified /\ input.sendOk /\ input.textOk
    /\ input.status = INTERNAL_SERVER_ERROR
    /\ input.expect = "doc" /\ InputKeys = {"data"} /\ input.body.obj.data = "ok"
    /\ output.tag = "SimpleNanoError"

\* C10 as stated: for a status that is neither 500 nor 404, a body that is a
\* JSON object with an `error` or `errors` key yields a server-reported error
\* (the simple error with the message and the status for `error`, the error
\* list for `errors`), and a body with neither key goes to the typed decode.
C10_AsStated ==
    BodyReached =>
        IF InputKeys \cap {"error", "errors"} # {}
        THEN \/ "error" \in InputKeys
                  /\ output = SimpleNanoError(input.status, input.body.obj.error.msg)
             \/ "errors" \in InputKeys /\ output.tag = "NanoErrors"
        ELSE output.tag \in {"Ok", "ResponseDecoding"}

\* C10 amended: for a status that is neither 500 nor 404, a body that is a
\* JSON object with an `error` or `errors` key never reaches the typed decode
\* and always yields an error: the simple error with the message and the
\* response status when the object is exactly {error: <string>}; the error
\* list, one entry per element, when it is exactly {errors: <list>} and every
\* element decodes (as every element with string-coded numbers does); the
\* BadJSON error in every other case (a non-string `error`, both keys, any
\* further key, an element that does not decode). A body with neither key
\* goes to the typed decode, which returns the decoded value or the
\* response-decoding error.
C10_ErrorKeyFirst ==
    BodyReached =>
        IF InputKeys \cap {"error", "errors"} # {}
        THEN LET o == input.body.obj
             IN  /\ output.tag \in {"SimpleNanoError", "NanoErrors", "BadJSON"}
                 /\ output.tag = "SimpleNanoError" <=>
                       InputKeys = {"error"} /\ o.error.kind = "str"
                 /\ output.tag = "SimpleNanoError" =>
                       output = SimpleNanoError(input.status, o.error.msg)
                 /\ output.tag = "NanoErrors" =>
                       InputKeys = {"errors"} /\ Len(output.errs) = Len(o.errors.list)
                 /\ (/\ InputKeys = {"errors"}
                     /\ \A i \in DOMAIN o.errors.list :
                           o.errors.list[i].code.repr = "str"
                             /\ o.errors.list[i].status.repr = "str")
                       => output.tag = "NanoErrors"
        ELSE /\ output.tag \in {"Ok", "ResponseDecoding"}
             /\ (input.expect = "doc" /\ InputKeys = {"data"} /\ input.body.obj.data = "ok")
                   => output = Ok("doc")

\* C10 witness: a 200 response whose body is {"error": "bad thing"} was
\* classified as the simple error with status 200 and that message, where a
\* document was expected.
C10_Witness ==
    /\ BodyReached /\ input.status = 200 /\ input.expect = "doc"
    /\ InputKeys = {"error"} /\ input.body.obj.error.msg = "bad thing"
    /\ output = SimpleNanoError(200, "bad thing")

-----------------------------------------------------------------------------
(* Properties of the session and of retry_request, stated for Spec *)

Done(p) == task[p].pc = "done"
\* task p ran an operation that went through retry_request, and it returned
Retried(p) == Done(p) /\ task[p].op \in NestedOps /\ task[p].att1 # NoRes
\* the first attempt ended in the simple server error carrying status 401
FirstWasSimple401(p) ==
    task[p].att1.tag = "SimpleNanoError" /\ task[p].att1.status = UNAUTHORIZED

\* C1 as stated: when the first response has status 401 and a token is held at
\* that moment, retry_request calls login() exactly once, then sends the
\* original request exactly once more, and returns that second outcome.
C1_AsStated ==
    \A p \in Clients :
        Retried(p) /\ task[p].unauth1 /\ task[p].held1 =>
            /\ task[p].logins = 1
            /\ task[p].sends = 2
            /\ task[p].res = task[p].att2

\* C1 amended: when the first attempt ends in the simple server error with
\* status 401 (a 401 response whose body is exactly {error: <string>}) and
\* is_logged_in() then finds a token, retry_request calls login() exactly
\* once; when that login succeeds the original request is sent exactly once
\* more, after the login, and the outcome of that second attempt is what the
\* caller receives; when that login fails the caller receives the login's
\* error and nothing is resent.
C1_RetryOnSimple401 ==
    \A p \in Clients :
        /\ Retried(p) /\ FirstWasSimple401(p) /\ task[p].chk = "yes" =>
              /\ task[p].logins = 1
              /\ IsOk(task[p].lres) =>
                    /\ task[p].sends = 2
                    /\ task[p].att2 # NoRes
                    /\ task[p].res = task[p].att2
              /\ ~IsOk(task[p].lres) =>
                    /\ task[p].sends = 1
                    /\ task[p].att2 = NoRes
                    /\ task[p].res = task[p].lres
        /\ task[p].ctx = "rr2" =>
              /\ FirstWasSimple401(p) /\ task[p].chk = "yes"
              /\ task[p].logins = 1 /\ IsOk(task[p].lres)

\* C1 witness: the response sequence [401, 200] on a session holding a token:
\* one login, two sends, the decoded document returned.
C1_Witness ==
    \E p \in Clients :
        /\ Retried(p) /\ FirstWasSimple401(p) /\ task[p].chk = "yes"
        /\ task[p].logins = 1 /\ task[p].sends = 2
        /\ task[p].att2 = Ok("doc") /\ task[p].res = Ok("doc")

\* C2: one call of retry_request sends the original request at most twice and
\* calls login() at most once; once a second attempt was made its outcome is
\* what is returned, in particular the second error when both attempts failed
\* with 401, and nothing is sent after it.
C2_BoundedRetry ==
    \A p \in Clients :
        /\ task[p].sends <= 2
        /\ task[p].logins <= 1
        /\ task[p].reqs <= 3
        /\ task[p].att2 # NoRes =>
              /\ Done(p)
              /\ task[p].res = task[p].att2
              /\ task[p].sends = 2

\* C2 witness: both attempts failed with 401, with different messages, and
\* the second error was returned after two sends and one login.
C2_Witness ==
    \E p \in Clients :
        /\ Done(p) /\ FirstWasSimple401(p)
        /\ task[p].att2.tag = "SimpleNanoError" /\ task[p].att2.status = UNAUTHORIZED
        /\ task[p].att2 # task[p].att1
        /\ task[p].res = task[p].att2
        /\ task[p].sends = 2 /\ task[p].logins = 1

\* the session held no token at the moment retry_request decided about the
\* 401 of the first attempt: when is_logged_in() was read, or, where the
\* guard was not evaluated, when the response arrived
NoTokenAt401(p) ==
    task[p].unauth1
      /\ \/ task[p].chk = "no"
         \/ task[p].chk = "none" /\ ~task[p].held1

LogoutReturns(p) ==
    task[p].op = "logout" /\ task[p].pc # "done" /\ task'[p].pc = "done"

\* C4 as stated: when logout() returns, however its request went, the session
\* holds no token.
C4_AsStated ==
    [][\A p \in Clients : LogoutReturns(p) => token' = NoToken]_vars

\* C4 amended: logout() sends its request whether or not a token is held and
\* clears the token only when that request succeeded: a logout() that returns
\* Ok has cleared the token in the step it returns; a logout() whose request
\* failed (transport failure, error status, server-reported error, a body that
\* is not JSON null) returns that error and leaves the token as it was.
C4_LogoutClearsOnSuccess ==
    [][\A p \in Clients :
          LogoutReturns(p) =>
              /\ task'[p].reqs = 1
              /\ IF IsOk(task'[p].res)
                 THEN token' = NoToken
                 ELSE token' = token /\ task'[p].res = task'[p].lres]_vars

\* C4 witness: a logout() returned the fixed server error and a token is held.
C4_Witness ==
    \E p \in Clients :
        /\ Done(p) /\ task[p].op = "logout"
        /\ task[p].res = SimpleNanoError(INTERNAL_SERVER_ERROR, "Internal Server Error")
        /\ token # NoToken
        /\ \A q \in Clients \ {p} : task[q].pc = "idle"

\* the step in which a login() of task p fails
LoginFails(p) ==
    /\ task[p].op # "logout" /\ task'[p].op # "logout"
    /\ task[p].lres = NoRes /\ IsErr(task'[p].lres)

\* C5: the step in which login() fails leaves the token as it is and returns
\* the error to the caller (through retry_request when the login is its
\* re-login); login() gets to its token write only after its request succeeded.
C5_LoginFailureKeepsToken ==
    [][\A p \in Clients :
          /\ LoginFails(p) =>
                /\ token' = token
                /\ task'[p].pc = "done"
                /\ task'[p].res = task'[p].lres
          /\ task'[p].ctx = "login" /\ task'[p].pc \in {"wwait", "wheld"} =>
                IsOk(task'[p].lres) /\ task'[p].lres.tok \in Tokens]_vars

\* C5 witness: a login() on a session holding a token failed to decode the
\* response; the token is still held.
C5_Witness ==
    \E p \in Clients :
        /\ Done(p) /\ task[p].op = "login"
        /\ task[p].res = ResponseDecoding
        /\ token # NoToken
        /\ \A q \in Clients \ {p} : task[q].pc = "idle"

AuthenticatedOps == {"current_user", "notifications", "add_project_session"}

\* C6 as stated: on a client without credentials every authenticated
\* operation returns NoCredentials and sends no request.
C6_AsStated ==
    \A p \in Clients :
        creds = "None" /\ Done(p) /\ task[p].op \in AuthenticatedOps =>
            task[p].res = NoCredentials /\ task[p].reqs = 0

\* C6 amended: on a client without credentials add_project_session returns
\* NoCredentials and sends no request; current_user and notifications send
\* their request exactly once, with no Authorization header, call no login()
\* and return the outcome of that single attempt, which is never
\* NoCredentials.
C6_AnonymousOperations ==
    \A p \in Clients :
        creds = "None" =>
            /\ task[p].hdr = NoToken
            /\ Done(p) /\ task[p].op = "add_project_session" =>
                  task[p].res = NoCredentials /\ task[p].reqs = 0
            /\ Done(p) /\ task[p].op \in RetryOps =>
                  /\ task[p].reqs = 1 /\ task[p].sends = 1 /\ task[p].logins = 0
                  /\ task[p].res = task[p].att1
                  /\ task[p].res # NoCredentials

\* C6 witness: on an anonymous client add_project_session returned
\* NoCredentials with nothing sent and current_user returned the 401 error of
\* the one request it sent.
C6_Witness ==
    \E p, q \in Clients :
        /\ creds = "None"
        /\ Done(p) /\ task[p].op = "add_project_session"
        /\ task[p].res = NoCredentials /\ task[p].reqs = 0
        /\ Done(q) /\ task[q].op = "current_user"
        /\ task[q].res.tag = "SimpleNanoError" /\ task[q].res.status = UNAUTHORIZED
        /\ task[q].reqs = 1

\* C7: the credentials stay those given at construction, and the token
\* changes only by the write of a login() whose request succeeded, to the
\* token that request returned, or by the write of logout(), to none.
C7_TokenTransitions ==
    /\ [](creds = creds0)
    /\ [][token' # token =>
            \E p \in Clients :
                /\ task[p].pc = "wheld"
                /\ \/ /\ task[p].ctx = "login" /\ task[p].op # "logout"
                      /\ IsOk(task[p].lres)
                      /\ token' = task[p].lres.tok
                      /\ token' \in Tokens
                   \/ /\ task[p].ctx = "logout" /\ task[p].op = "logout"
                      /\ token' = NoToken]_vars

\* C7 witness: one task's login() returned Ok, the other's logout() returned
\* Ok after it, and the session holds no token: the token was set by the
\* first and cleared by the second, the credentials still in place.
C7_Witness ==
    \E p, q \in Clients :
        /\ Done(p) /\ task[p].op = "login" /\ IsOk(task[p].res)
        /\ Done(q) /\ task[q].op = "logout" /\ IsOk(task[q].res)
        /\ token = NoToken
        /\ creds = "Some" /\ creds0 = "Some"

\* the step in which task p's request goes out
Sends(p) == task[p].pc = "rheld" /\ task'[p].pc = "sent"

\* C8: every request that goes out (the original request, its resend, the
\* sign-in and the logout request) carries the token held when it was built
\* as its Authorization header, and no such header when none is held.
C8_AuthorizationHeader ==
    [][\A p \in Clients : Sends(p) => task'[p].hdr = token]_vars

\* C8 witness: a sign-in request is in flight carrying the token in hand, and
\* the other task's request is in flight with no header.
C8_Witness ==
    \E p, q \in Clients :
        /\ task[p].pc = "sent" /\ task[p].ctx = "login" /\ task[p].hdr \in Tokens
        /\ task[q].pc = "sent" /\ task[q].hdr = NoToken
\* the body of `input` is exactly {"errors": [...]} and every entry writes its
\* code and its status as bare JSON numbers
ErrorsWithNumbers ==
    /\ InputKeys = {"errors"}
    /\ \A i \in DOMAIN input.body.obj.errors.list :
          /\ input.body.obj.errors.list[i].code.repr = "num"
          /\ input.body.obj.errors.list[i].status.repr = "num"

\* C11 as stated: for a status that is neither 500 nor 404, a body
\* {"errors": [...]} whose entries write code and status as JSON numbers is
\* classified as the error list, with one entry per element of the list that
\* carries that element's code, status, title and detail.
C11_AsStated ==
    BodyReached /\ ErrorsWithNumbers =>
        LET l == input.body.obj.errors.list
        IN  /\ output.tag = "NanoErrors"
            /\ Len(output.errs) = Len(l)
            /\ \A i \in DOMAIN l :
                  output.errs[i] = [code |-> l[i].code.n, status |-> l[i].status.n,
                                    title |-> l[i].title, detail |-> l[i].detail]

\* C11 amended: for a status that is neither 500 nor 404, a body
\* {"errors": [...]} is classified as the error list, with one entry per
\* element carrying that element's code, status, title and detail, exactly
\* when every element writes its code and its status as JSON strings of
\* digits ("code": "1", "status": "404"); when some element writes either
\* of them as a bare JSON number the body yields the BadJSON error.
C11_ErrorListFromStrings ==
    BodyReached /\ InputKeys = {"errors"} =>
        LET l == input.body.obj.errors.list
        IN  IF \A i \in DOMAIN l : l[i].code.repr = "str" /\ l[i].status.repr = "str"
            THEN /\ output.tag = "NanoErrors"
                 /\ Len(output.errs) = Len(l)
                 /\ \A i \in DOMAIN l :
                       output.errs[i] = [code |-> l[i].code.n, status |-> l[i].status.n,
                                         title |-> l[i].title, detail |-> l[i].detail]
            ELSE output = BadJSON

\* C11 witness: a 200 response whose body is
\* {"errors": [{"code": "1", "status": "404", "title": "T", "detail": "D"}]}
\* was classified as the error list holding that one entry.
C11_Witness ==
    /\ BodyReached /\ input.status = 200 /\ InputKeys = {"errors"}
    /\ Len(input.body.obj.errors.list) = 1
    /\ input.body.obj.errors.list[1].code = [repr |-> "str", n |-> 1]
    /\ input.body.obj.errors.list[1].status = [repr |-> "str", n |-> 404]
    /\ output = NanoErrors(<<[code |-> 1, status |-> 404, title |-> "T", detail |-> "D"]>>)

-----------------------------------------------------------------------------
(* Following a relation link: get_all_related and get_unique_related *)

\* longest `related` URI of a link, in characters
MaxUri == 3
\* the characters a URI is written with here: the plural suffix, a letter
\* that is not it, and the path separator
UriChars == {"s", "r", "/"}
\* RelationLink.related: a string, as the sequence of its characters
RelatedUris == UNION {[1..n -> UriChars] : n \in 0..MaxUri}

\* str::ends_with(char)
ends_with(s, c) == Len(s) > 0 /\ s[Len(s)] = c

\* what a call came to: the request handed to retry_request, or a panic
Requested(path) == [tag |-> "request", path |-> path]
Panicked == [tag |-> "panic", path |-> <<>>]
NotCalled == [tag |-> "none", path |-> <<>>]

get_all_related(rel) ==
    IF ~ends_with(rel.related, "s") THEN Panicked ELSE Requested(rel.related)

get_unique_related(rel) ==
    IF ends_with(rel.related, "s") THEN Panicked ELSE Requested(rel.related)

RelatedInputs == [op : {"get_all_related", "get_unique_related"},
                  rel : [related : RelatedUris]]

InitRelated ==
    /\ creds = "None"
    /\ creds0 = creds
    /\ token = NoToken
    /\ rlock = {}
    /\ wlock = {}
    /\ task = [p \in Clients |-> IdleTask]
    /\ input \in RelatedInputs
    /\ output = NotCalled

all_related ==
    /\ output = NotCalled
    /\ input.op = "get_all_related"
    /\ output' = get_all_related(input.rel)
    /\ UNCHANGED <<Shared, task, input>>

unique_related ==
    /\ output = NotCalled
    /\ input.op = "get_unique_related"
    /\ output' = get_unique_related(input.rel)
    /\ UNCHANGED <<Shared, task, input>>

NextRelated == all_related \/ unique_related

SpecRelated == InitRelated /\ [][NextRelated]_vars

-----------------------------------------------------------------------------
(* Properties of the relation links, stated for SpecRelated *)

\* the operation does not fit the link: get_all_related on a URI that does
\* not end in the plural suffix, get_unique_related on one that does
Misuse ==
    (input.op = "get_all_related") # ends_with(input.rel.related, "s")

\* C21 as stated: a call that does not fit the link's cardinality comes back
\* to the caller as an error value, with no request sent and no abort of the
\* process, and a call that fits sends the request to the link's URI.
C21_AsStated ==
    output # NotCalled =>
        /\ Misuse => output.tag = "error"
        /\ ~Misuse => output = Requested(input.rel.related)

-----------------------------------------------------------------------------
(* The wire names of the kinds: a name is written for a kind, then read *)

\* where a kind's name is written: as the plural name, as the singular name,
\* as the `type` tag of a resource encoded through the Object enum, as the
\* `type` of an encoded ObjectRef
NameForms == {"plural", "unique", "Object", "ObjectRef"}

\* the variant of the Object enum a `type` tag selects
from_tag(name) ==
    IF \E k \in NanoKinds : ObjectTag(k) = name
    THEN [ok |-> TRUE, kind |-> CHOOSE k \in NanoKinds : ObjectTag(k) = name]
    ELSE [ok |-> FALSE, kind |-> "none"]

WrittenName(form, k) ==
    CASE form = "plural" -> api_name(k)
      [] form = "unique" -> api_unique_name(k)
      [] form = "Object" -> Serialize(Resource(TRUE, k, 0, {}, NoRelationInfo)).type
      [] form = "ObjectRef" -> SerializeObjectRef(ObjectRef(1, k)).type

ReadName(form, name) ==
    IF form = "Object" THEN from_tag(name) ELSE de_nanokind(name)

NoName == [stage |-> "start", name |-> NoMember, res |-> [ok |-> FALSE, kind |-> "none"]]

InitNames ==
    /\ creds = "None"
    /\ creds0 = creds
    /\ token = NoToken
    /\ rlock = {}
    /\ wlock = {}
    /\ task = [p \in Clients |-> IdleTask]
    /\ input \in [kind : NanoKinds, form : NameForms]
    /\ output = NoName

write_name ==
    /\ output.stage = "start"
    /\ output' = [output EXCEPT !.stage = "written",
                                !.name = WrittenName(input.form, input.kind)]
    /\ UNCHANGED <<Shared, task, input>>

read_name ==
    /\ output.stage = "written"
    /\ output' = [output EXCEPT !.stage = "read",
                                !.res = ReadName(input.form, output.name)]
    /\ UNCHANGED <<Shared, task, input>>

NextNames == write_name \/ read_name

SpecNames == InitNames /\ [][NextNames]_vars

-----------------------------------------------------------------------------
(* Fetching by kind: get_id and get_all, with the kind asked for, the type *)
(* the caller decodes into and the document the server answers with        *)

\* ObjectInfo::kind: the constant of a kind's struct, the inner value's for
\* the Object enum
kind(v) == v.kind

\* a well-formed document of each kind
KindDocs ==
    {WireDoc(ObjectTag(w), [repr |-> "str", n |-> 1], Fields(w), NoWireRels) :
        w \in NanoKinds}

GetInputs == [op : {"get_id", "get_all"}, ty : NanoKinds, expect : Targets,
              id : {1}, doc : KindDocs]

NotFetched == [called |-> FALSE, path |-> <<>>, data |-> <<>>]

InitGet ==
    /\ creds = "None"
    /\ creds0 = creds
    /\ token = NoToken
    /\ rlock = {}
    /\ wlock = {}
    /\ task = [p \in Clients |-> IdleTask]
    /\ input \in GetInputs
    /\ output = NotFetched

\* get_id: the request goes to <plural name>/<id>, the `data` of the answer
\* is decoded into D
get_id ==
    /\ ~output.called /\ input.op = "get_id"
    /\ output' = [called |-> TRUE, path |-> <<api_name(input.ty), input.id>>,
                  data |-> <<Decode(input.expect, input.doc)>>]
    /\ UNCHANGED <<Shared, task, input>>

\* get_all: the request goes to <plural name>, each element of the `data` of
\* the answer is decoded into D
get_all ==
    /\ ~output.called /\ input.op = "get_all"
    /\ output' = [called |-> TRUE, path |-> <<api_name(input.ty)>>,
                  data |-> <<Decode(input.expect, input.doc)>>]
    /\ UNCHANGED <<Shared, task, input>>

NextGet == get_id \/ get_all

SpecGet == InitGet /\ [][NextGet]_vars

\* C26 as stated: when a fetch of kind ty succeeds, every resource of the
\* returned data has kind() equal to ty.
C26_AsStated ==
    output.called =>
        \A i \in DOMAIN output.data :
            output.data[i].tag = "Ok" => kind(output.data[i].val) = input.ty

-----------------------------------------------------------------------------
(* The session under fair scheduling: the transport answers every request, *)
(* the token lock is granted fairly, code that holds a guard runs on        *)

\* the results the server's answers are taken from here, one of each kind the
\* callers of make_request tell apart: a success, the simple error with the
\* UNAUTHORIZED status, and another error
FairResults ==
    {NoRes, Ok("doc"), Ok("unit"), OkLogin(1), NoCredentials,
     SimpleNanoError(UNAUTHORIZED, "Unauthorized"), ReqwestError}

FairAnswers ==
    \A p \in Clients :
        /\ task[p].att1 \in FairResults
        /\ task[p].att2 \in FairResults
        /\ task[p].lres \in FairResults
        /\ task[p].unauth1 = MatchesUnauthorized(task[p].att1)

NextFair == Next /\ FairAnswers'

Fairness ==
    \A p \in Clients :
        /\ SF_vars(read_lock(p))
        /\ SF_vars(write_lock(p))
        /\ WF_vars(make_request_send(p))
        /\ WF_vars(make_request_recv(p) /\ FairAnswers')
        /\ WF_vars(is_logged_in_read(p))
        /\ WF_vars(login_write(p))
        /\ WF_vars(logout_write(p))

SpecFair == Init /\ [][NextFair]_vars /\ Fairness

\* task p is inside an operation that has not returned
Running(p) == task[p].pc \notin {"idle", "done"}

\* C27: a task whose request is in flight holds no guard of the token lock,
\* and a task waits for or holds the write guard only with the response to
\* its request in hand; every operation that was started comes to its end,
\* the login() called by retry_request included.
C27_NoDeadlock ==
    /\ [](\A p \in Clients :
            /\ task[p].pc \in {"sent", "rwait", "wwait"} => p \notin rlock \cup wlock
            /\ task[p].pc \in {"wwait", "wheld"} => IsOk(task[p].lres))
    /\ \A p \in Clients : Running(p) ~> ~Running(p)
    /\ \A p \in Clients :
          (task[p].op \in NestedOps /\ task[p].ctx = "login") ~> ~Running(p)

\* C27 witness: an operation that went through a login() of retry_request's
\* and sent its request again has returned, while the other task holds the
\* write guard.
C27_Witness ==
    \E p, q \in Clients :
        /\ Done(p) /\ task[p].op \in NestedOps
        /\ task[p].logins = 1 /\ task[p].sends = 2
        /\ task[q].pc = "wheld"

-----------------------------------------------------------------------------
(* Properties of the session under concurrency, stated for Spec *)

\* C22: while a task holds the write guard of the token lock no other task
\* holds a guard of either kind, and the token changes only in a step of the
\* task that holds the write guard, in login() or logout(); a read of the
\* token, made under a read guard, cannot fall inside such a step.
C22_ReaderWriterDiscipline ==
    /\ [](/\ Cardinality(wlock) <= 1
          /\ wlock # {} => rlock = {}
          /\ \A p \in Clients :
                /\ p \in wlock <=> task[p].pc = "wheld"
                /\ p \in rlock <=> task[p].pc = "rheld")
    /\ [][token' # token =>
            \E p \in Clients :
                /\ wlock = {p} /\ rlock = {}
                /\ task[p].ctx \in {"login", "logout"}
                /\ \A q \in Clients \ {p} : task[q].pc \notin {"rheld", "wheld"}]_vars

\* C22 witness: login() holds the write guard, about to replace a token that
\* is already held, while the other task waits to read the token.
C22_Witness ==
    /\ wlock = {"a"} /\ task["a"].ctx = "login" /\ token # NoToken
    /\ task["a"].lres.tok # token
    /\ task["b"].pc = "rwait"

\* two requests hold a read guard of the token at the same time
TwoReaders == rlock = Clients

\* the first attempt of the operation `p` runs came back as a simple error
\* with the UNAUTHORIZED status while a token was held
Got401LoggedIn(p) ==
    /\ task[p].op \in NestedOps
    /\ MatchesUnauthorized(task[p].att1)
    /\ task[p].held1

\* the operation of `p` is still running after that failure
Pending(p) == Got401LoggedIn(p) /\ ~Done(p)

InSession(p) == task[p].ctx \in {"login", "logout"}

\* C24: login() and logout() get to their token write only once their request
\* has come back and was decoded as a success, with nothing of theirs in
\* flight any more; every other step of theirs (waiting, sending, receiving a
\* failure, being cancelled at any await point) leaves the token and the
\* credentials as they are, and the write itself puts a whole value in place:
\* the token the sign-in returned, or none.
C24_WriteAfterCompletion ==
    /\ [](\A p \in Clients :
            InSession(p) /\ task[p].pc \in {"wwait", "wheld"} =>
                /\ IsOk(task[p].lres)
                /\ task[p].reqs >= 1
                /\ task[p].hdr = NoToken)
    /\ [][\A p \in Clients :
            InSession(p) /\ task'[p] # task[p] =>
                /\ creds' = creds
                /\ IF task[p].pc = "wheld"
                   THEN /\ token' = (IF task[p].ctx = "login"
                                     THEN task[p].lres.tok ELSE NoToken)
                        /\ token' \in Tokens \cup {NoToken}
                   ELSE token' = token]_vars

\* C24 witness: the sign-in request of a login() came back with a new token
\* while another is held, and the task waits for the write lock: the token is
\* still the old one, and stays so if the caller drops the login() here.
C24_Witness ==
    \E p \in Clients :
        /\ task[p].ctx = "login" /\ task[p].pc = "wwait"
        /\ IsOk(task[p].lres)
        /\ token # NoToken /\ task[p].lres.tok # token

\* the re-login retry_request made for task p has failed
ReloginFailed(p) ==
    /\ task[p].op \in NestedOps
    /\ task[p].chk = "yes"
    /\ IsErr(task[p].lres)

\* C28: when the login() retry_request calls after its first attempt fails,
\* retry_request returns that login's error in the same step, the original
\* request has been sent once and is not sent again, the failed sign-in is
\* the only other request made, and the step leaves the token as it was.
C28_FailedRelogin ==
    /\ [](\A p \in Clients :
            ReloginFailed(p) =>
                /\ Done(p)
                /\ task[p].res = task[p].lres
                /\ MatchesUnauthorized(task[p].att1)
                /\ task[p].att2 = NoRes
                /\ task[p].sends = 1 /\ task[p].logins = 1 /\ task[p].reqs = 2)
    /\ [][\A p \in Clients :
            ~ReloginFailed(p) /\ ReloginFailed(p)' =>
                /\ token' = token
                /\ task[p].ctx = "login" /\ task[p].pc = "sent"]_vars

\* C28 witness: current_user got the 401 error, its re-login got the fixed
\* server error, and that error is what current_user returned; the stale token
\* is still held, with the other task idle.
C28_Witness ==
    \E p \in Clients :
        /\ Done(p) /\ task[p].op = "current_user"
        /\ ReloginFailed(p)
        /\ task[p].att1 = SimpleNanoError(UNAUTHORIZED, "Unauthorized")
        /\ task[p].res = SimpleNanoError(INTERNAL_SERVER_ERROR, "Internal Server Error")
        /\ token # NoToken
        /\ \A q \in Clients \ {p} : task[q].pc = "idle"

\* the step in which a login() called by the user returns Ok: the last step of
\* new_user, which is new() followed by login()
LoginReturnsOk(p) ==
    /\ task[p].op = "login" /\ ~Done(p)
    /\ Done(p)' /\ IsOk(task'[p].res)

\* C29: a token is held only by a client that has credentials; a client made
\* without credentials never holds a token, its login() returns NoCredentials
\* with nothing sent, its requests carry no Authorization header and its
\* is_logged_in() answers false; and the step in which login() returns Ok, as
\* it does at the end of new_user, leaves a token held.
C29_TokenImpliesCredentials ==
    /\ [](token # NoToken => creds = "Some")
    /\ [](creds0 = "None" =>
            /\ token = NoToken
            /\ \A p \in Clients :
                  /\ task[p].ctx # "login"
                  /\ task[p].hdr = NoToken
                  /\ task[p].chk # "yes"
                  /\ Done(p) /\ task[p].op = "login" =>
                        task[p].res = NoCredentials /\ task[p].reqs = 0
                  /\ Done(p) /\ task[p].op = "is_logged_in" =>
                        task[p].res = Ok("false"))
    /\ [][\A p \in Clients :
            LoginReturnsOk(p) =>
                /\ creds = "Some"
                /\ token' \in Tokens
                /\ token' = task[p].lres.tok]_vars

\* C29 witness: on a client made without credentials login() returned
\* NoCredentials with nothing sent and is_logged_in() returned false.
C29_Witness ==
    \E p, q \in Clients :
        /\ creds0 = "None" /\ token = NoToken
        /\ Done(p) /\ task[p].op = "login"
        /\ task[p].res = NoCredentials /\ task[p].reqs = 0
        /\ Done(q) /\ task[q].op = "is_logged_in" /\ task[q].res = Ok("false")

-----------------------------------------------------------------------------
(* retry_request against one answer: the first request of current_user is  *)
(* in flight and the server answers it with the response `input`, status   *)
(* UNAUTHORIZED; what follows is the rest of retry_request                 *)

\* the responses that carry the UNAUTHORIZED status
UnauthorizedAnswers ==
    {i \in ClassifyInputs : i.sendOk /\ i.status = UNAUTHORIZED /\ i.expect = "doc"}

\* the task whose request is answered
Asker == "a"

InitAnswer ==
    /\ creds = "Some"
    /\ creds0 = creds
    /\ token \in {NoToken, 1}
    /\ rlock = {}
    /\ wlock = {}
    /\ task = [p \in Clients |->
                 IF p = Asker
                 THEN [Begin("current_user", "rr1") EXCEPT
                          !.pc = "sent", !.hdr = token, !.sends = 1, !.reqs = 1]
                 ELSE IdleTask]
    /\ input \in UnauthorizedAnswers
    /\ output = NoRes

\* make_request classifies the answer and retry_request matches the result
first_answer ==
    /\ task[Asker].pc = "sent" /\ task[Asker].ctx = "rr1"
    /\ task' = [task EXCEPT ![Asker] =
                  after_first(task[Asker],
                              [status |-> input.status,
                               res |-> Classify(input, input.expect)],
                              token # NoToken)]
    /\ UNCHANGED <<Shared, Pure>>

NextAnswer ==
    \/ first_answer
    \/ read_lock(Asker)
    \/ is_logged_in_read(Asker)
    \/ make_request_send(Asker)
    \/ task[Asker].ctx # "rr1" /\ make_request_recv(Asker)
    \/ write_lock(Asker)
    \/ login_write(Asker)

SpecAnswer == InitAnswer /\ [][NextAnswer]_vars

\* the body of the answer is a JSON object with the one key `error`, holding
\* a message
SimpleErrorBody ==
    /\ input.textOk /\ input.body.json /\ input.body.top = "object"
    /\ KeysOf(input.body.obj) = {"error"}
    /\ input.body.obj.error.kind = "str"

\* C30: of the answers with the 401 status, retry_request goes to its guard,
\* and from there to the re-login and the second request, only for one whose
\* body is a JSON object with the one key `error` holding a message; for a
\* body with an `errors` list, with neither error key, empty or not JSON, the
\* first result is returned (an error list or a bad-JSON error, a decoded
\* value or a decoding error) with no login() and no second request, whether
\* or not a token is held.
C30_WhichUnauthorizedRetried ==
    LET t == task[Asker]
        b == input.body
    IN  t.att1 # NoRes =>
          /\ t.att1 = Classify(input, "doc")
          /\ SimpleErrorBody <=> MatchesUnauthorized(t.att1)
          /\ t.chk # "none" \/ t.logins > 0 \/ t.sends > 1 => SimpleErrorBody
          /\ t.logins > 0 => token # NoToken /\ t.chk = "yes"
          /\ ~SimpleErrorBody =>
                /\ t.pc = "done" /\ t.res = t.att1
                /\ t.logins = 0 /\ t.sends = 1 /\ t.reqs = 1
                /\ ~input.textOk => t.res = ReqwestError
                /\ input.textOk /\ ~b.json => t.res = ResponseDecoding
                /\ input.textOk /\ HasErrorKey(b) =>
                      t.res.tag \in {"NanoErrors", "BadJSON"}
                /\ input.textOk /\ b.json /\ ~HasErrorKey(b) =>
                      t.res.tag \in {"Ok", "ResponseDecoding"}

\* C30 witness: with a token held, the 401 answer carried an `errors` list of
\* one entry; current_user returned it as an error list after the one request,
\* with no login().
C30_Witness ==
    /\ token # NoToken
    /\ input.textOk /\ HasKey(input.body.obj, "errors")
    /\ task[Asker].pc = "done"
    /\ task[Asker].res.tag = "NanoErrors" /\ Len(task[Asker].res.errs) = 1
    /\ task[Asker].logins = 0 /\ task[Asker].sends = 1 /\ task[Asker].reqs = 1

=============================================================================
